---- MODULE Spec2Model ----
(***************************************************************************)
(* A model of `latest`, the multi-source version resolution engine:        *)
(* the version comparator (src/src/lib.rs), the file cache                 *)
(* (src/src/cache.rs), the query dispatcher and the lookup orchestrator    *)
(* (src/src/main.rs) over the source registry (src/src/sources/mod.rs),    *)
(* main's parallel map over the packages (src/src/main.rs) and the         *)
(* subprocess timeout (src/src/sources/path.rs).                           *)
(*                                                                         *)
(* There is one specification per part: Spec (lookup with the dispatcher   *)
(* and the cache), CacheSpec (cache::get and cache::set called directly),  *)
(* VersionSpec (is_newer), ResultSpec (the PackageResult constructors),    *)
(* MainSpec (main) and RunSpec (run_with_timeout). The variables of the    *)
(* other parts stay at their initial values.                               *)
(*                                                                         *)
(* Strings are sequences of characters; a character is a one-character     *)
(* string, and a control character is written by its name ("ESC", "CR").   *)
(* An Option<T> is a sequence of length 0 (None) or 1 (Some).              *)
(***************************************************************************)
EXTENDS Integers, Sequences, FiniteSets, TLC

VARIABLES
    now,        \* SystemTime::now() in seconds since the epoch
    ticks,      \* how many times the clock has advanced
    cache_dir,  \* whether dirs::cache_dir() is Some
    cache,      \* the cache directory: file name -> Option<CacheEntry>
    written,    \* history: (source, package) -> the last write-through
    lookups,    \* how many lookups have been started
    package,    \* lookup(package, ..)
    sources,    \* lookup(.., sources, ..): a sequence of source names
    mode,       \* lookup(.., mode, ..)
    use_cache,  \* lookup(.., use_cache)
    pc,         \* where the lookup is: "idle", "local", "registry", "done"
    task,       \* per index of sources: where its query is
    pending,    \* per index: the version get_version returned, not yet stored
    got_at,     \* per index: Option of the time get_version returned it
    qres,       \* per index: Option<String>, what its query returned
    qfrom,      \* per index: "none", "adapter" or "cache": who produced qres
    found,      \* Option<(version, index)>: what find_map_any holds
    result,     \* Option<PackageResult>: what lookup returned
    \* cache::get and cache::set called directly
    calls,      \* the last two calls of the cache, the newest first
    stored_by,  \* history: file name -> Option of the (source, package) of
                \* the set that wrote the entry the file holds
    \* is_newer
    va, vb, vc, \* three version strings
    verdict,    \* Option of the is_newer results over them
    \* the PackageResult constructors
    made,       \* Option<PackageResult>: the last one constructed
    seen,       \* history: the (populated fields, status) pairs constructed
    \* main
    cli,        \* the parsed command line and the configuration
    main_pc,    \* "start", "map", "output" or "exit"
    slots,      \* per package index: Option<PackageResult> of its closure
    finished,   \* the package indices in the order their closures finished
    results,    \* the collected Vec<PackageResult>
    exit_code,  \* Option of the code the process ends with
    queried,    \* history: the (package index, source) pairs of the sources
                \* the closures handed to lookup
    out,        \* Option of what output_results did
    \* run_with_timeout
    timeout,    \* the timeout argument, in milliseconds
    child,      \* the child process: "none", "running", "exited" (not yet
                \* waited for), "reaped" (by wait), "gone" (reaped elsewhere)
    elapsed,    \* milliseconds since `start`
    rt_pc,      \* where run_with_timeout is
    rt_ret,     \* what run_with_timeout returned
    \* get_version of a local adapter
    adapter,    \* the source whose get_version runs
    ad_pc,      \* where get_version is
    flag,       \* the index of the flag PathSource::get_version tries
    ad_ret,     \* what get_version returned
    \* cache::set by two threads, on the bytes of the files
    disk,       \* file name -> Option of the characters the file holds
    wr,         \* per writer: where its cache::set is, its file, its content
    read_back   \* Option of what a get after the writes returned

\* the variables of each part
store_vars == <<now, ticks, cache_dir, cache>>
lookup_vars == <<written, lookups, package, sources, mode, use_cache, pc,
                 task, pending, got_at, qres, qfrom, found,
                 result>>
call_vars == <<calls, stored_by>>
version_vars == <<va, vb, vc, verdict>>
result_vars == <<made, seen>>
main_vars == <<cli, main_pc, slots, finished, results, exit_code, queried,
              out>>
run_vars == <<timeout, child, elapsed, rt_pc, rt_ret>>
adapter_vars == <<adapter, ad_pc, flag, ad_ret>>
write_vars == <<disk, wr, read_back>>

\* what a step of lookup leaves alone
beyond_lookup == <<call_vars, version_vars, result_vars, main_vars, run_vars,
                   adapter_vars, write_vars>>

vars == <<store_vars, lookup_vars, call_vars, version_vars, result_vars,
          main_vars, run_vars, adapter_vars, write_vars>>

None == <<>>
Some(x) == <<x>>
IsSome(o) == Len(o) = 1
Unwrap(o) == o[1]

----------------------------------------------------------------------------
(* Characters *)

DigitSeq == <<"0", "1", "2", "3", "4", "5", "6", "7", "8", "9">>
Digits == {DigitSeq[i] : i \in 1..10}
DigitVal(c) == (CHOOSE i \in 1..10 : DigitSeq[i] = c) - 1

Lower == {"a", "b", "c", "d", "e", "f", "g", "h", "i", "j", "k", "l", "m",
          "n", "o", "p", "q", "r", "s", "t", "u", "v", "w", "x", "y", "z"}
Upper == {"A", "B", "C", "D", "E", "F", "G", "H", "I", "J", "K", "L", "M",
          "N", "O", "P", "Q", "R", "S", "T", "U", "V", "W", "X", "Y", "Z"}
\* char::is_ascii_alphabetic
is_ascii_alphabetic(c) == c \in Lower \cup Upper
\* char::is_alphanumeric, on the characters of the model
is_alphanumeric(c) == c \in Lower \cup Upper \cup Digits
\* char::is_control: the control characters of the model, by name
ControlChars == {"NUL", "BEL", "TAB", "LF", "FF", "CR", "ESC"}
is_control(c) == c \in ControlChars

----------------------------------------------------------------------------
(* The version comparator, src/src/lib.rs *)

\* u64::MAX, the largest value str::parse::<u64> accepts
U64MaxDigits == <<"1", "8", "4", "4", "6", "7", "4", "4", "0", "7",
                  "3", "7", "0", "9", "5", "5", "1", "6", "1", "5">>

\* A number is kept as its decimal digits without leading zeros (0 is <<>>),
\* so that no width of the checker's integers limits it.
RECURSIVE StripZeros(_)
StripZeros(tok) ==
    IF tok # <<>> /\ Head(tok) = "0" THEN StripZeros(Tail(tok)) ELSE tok

\* x <= y in the place of x < y
NumLess_or_equal(x, y) ==
    \/ Len(x) < Len(y)
    \/ /\ Len(x) = Len(y)
       /\ \A i \in 1..Len(x) :
            (\A j \in 1..(i - 1) : x[j] = y[j]) =>
                DigitVal(x[i]) <= DigitVal(y[i])

\* x < y on numbers
NumLess(x, y) ==
    \/ Len(x) < Len(y)
    \/ /\ Len(x) = Len(y)
       /\ \E i \in 1..Len(x) :
            /\ DigitVal(x[i]) < DigitVal(y[i])
            /\ \A j \in 1..(i - 1) : x[j] = y[j]

\* a token that does not parse counted as 0, as unwrap_or_default would
ParseU64_or_zero(tok) ==
    IF tok = <<>> THEN Some(<<>>)
    ELSE IF NumLess(U64MaxDigits, StripZeros(tok)) THEN Some(<<>>)
    ELSE Some(StripZeros(tok))

\* s.parse::<u64>().ok() on a token of digits: None for the empty token and
\* for a value above u64::MAX
ParseU64(tok) ==
    IF tok = <<>> THEN None
    ELSE IF NumLess(U64MaxDigits, StripZeros(tok)) THEN None
    ELSE Some(StripZeros(tok))

\* v.split(|c| !c.is_ascii_digit()): the tokens between the non-digits
RECURSIVE SplitNonDigit(_, _)
SplitNonDigit(v, cur) ==
    IF v = <<>> THEN <<cur>>
    ELSE IF Head(v) \in Digits THEN SplitNonDigit(Tail(v), Append(cur, Head(v)))
    ELSE <<cur>> \o SplitNonDigit(Tail(v), <<>>)

RECURSIVE FilterMapParse(_)
FilterMapParse(toks) ==
    IF toks = <<>> THEN <<>>
    ELSE LET p == ParseU64(Head(toks))
         IN  (IF IsSome(p) THEN <<Unwrap(p)>> ELSE <<>>)
             \o FilterMapParse(Tail(toks))

\* a string without a numeric component counted as the one component 0
parse_or_zero(v) ==
    IF FilterMapParse(SplitNonDigit(v, <<>>)) = <<>> THEN << <<>> >>
    ELSE FilterMapParse(SplitNonDigit(v, <<>>))

\* the closure `parse` of is_newer
parse(v) == FilterMapParse(SplitNonDigit(v, <<>>))

\* a.get(i), with i counted from 0
Get(a, i) == IF i + 1 <= Len(a) THEN Some(a[i + 1]) ELSE None
UnwrapOr0(o) == IF IsSome(o) THEN Unwrap(o) ELSE <<>>
Max(m, n) == IF m >= n THEN m ELSE n

\* is_newer without the comparison of the components before i
is_newer_any_component(inst, latest) ==
    LET a == parse(inst)
        b == parse(latest)
    IN  \E i \in 0..(Max(Len(a), Len(b)) - 1) :
            NumLess(UnwrapOr0(Get(a, i)), UnwrapOr0(Get(b, i)))

is_newer(inst, latest) ==
    LET a == parse(inst)
        b == parse(latest)
    IN  \E i \in 0..(Max(Len(a), Len(b)) - 1) :
            /\ NumLess(UnwrapOr0(Get(a, i)), UnwrapOr0(Get(b, i)))
            /\ \A j \in 0..(i - 1) : Get(a, j) = Get(b, j)

----------------------------------------------------------------------------
(* Output sanitization, src/src/main.rs *)

\* the inner loop of sanitize_output: skip up to and including the final
\* byte (a letter) of a CSI sequence
RECURSIVE SkipCsi(_)
SkipCsi(s) ==
    IF s = <<>> THEN <<>>
    ELSE IF is_ascii_alphabetic(Head(s)) THEN Tail(s)
    ELSE SkipCsi(Tail(s))

RECURSIVE sanitize_output(_)
sanitize_output(s) ==
    IF s = <<>> THEN <<>>
    ELSE LET c == Head(s)
             rest == Tail(s)
         IN  IF c = "ESC"
             THEN IF rest # <<>> /\ Head(rest) = "["
                  THEN sanitize_output(SkipCsi(Tail(rest)))
                  ELSE sanitize_output(rest)
             ELSE IF ~is_control(c) \/ c = "LF"
                  THEN <<c>> \o sanitize_output(rest)
                  ELSE sanitize_output(rest)

----------------------------------------------------------------------------
(* The source registry, src/src/sources/mod.rs *)

\* define_sources!: name, is_local, ecosystem, in declaration order
Registry == <<
    [name |-> "path",  local |-> TRUE,  eco |-> "System"],
    [name |-> "brew",  local |-> FALSE, eco |-> "System"],
    [name |-> "apt",   local |-> FALSE, eco |-> "System"],
    [name |-> "npm",   local |-> FALSE, eco |-> "Npm"],
    [name |-> "uv",    local |-> TRUE,  eco |-> "Python"],
    [name |-> "pip",   local |-> TRUE,  eco |-> "Python"],
    [name |-> "go",    local |-> FALSE, eco |-> "Go"],
    [name |-> "cargo", local |-> FALSE, eco |-> "Cargo"],
    [name |-> "gem",   local |-> FALSE, eco |-> "Ruby"],
    [name |-> "hex",   local |-> FALSE, eco |-> "Beam"],
    [name |-> "pub",   local |-> FALSE, eco |-> "Dart"] >>

SourceNames == {Registry[i].name : i \in 1..Len(Registry)}

\* source_by_name falling back to the first source for an unknown name
source_by_name_or_first(name) ==
    IF name \in SourceNames
    THEN Some(CHOOSE r \in {Registry[i] : i \in 1..Len(Registry)} : r.name = name)
    ELSE Some(Registry[1])

\* source_by_name(name): Option<Box<dyn Source>>
source_by_name(name) ==
    IF name \in SourceNames
    THEN Some(CHOOSE r \in {Registry[i] : i \in 1..Len(Registry)} : r.name = name)
    ELSE None

\* Source::is_local and Source::ecosystem of the source of that name
is_local(name) == Unwrap(source_by_name(name)).local
ecosystem(name) == Unwrap(source_by_name(name)).eco

\* Source::name() as characters, as format! writes it into a file name
NameChars(name) ==
    CASE name = "path"  -> <<"p", "a", "t", "h">>
      [] name = "brew"  -> <<"b", "r", "e", "w">>
      [] name = "apt"   -> <<"a", "p", "t">>
      [] name = "npm"   -> <<"n", "p", "m">>
      [] name = "uv"    -> <<"u", "v">>
      [] name = "pip"   -> <<"p", "i", "p">>
      [] name = "go"    -> <<"g", "o">>
      [] name = "cargo" -> <<"c", "a", "r", "g", "o">>
      [] name = "gem"   -> <<"g", "e", "m">>
      [] name = "hex"   -> <<"h", "e", "x">>
      [] name = "pub"   -> <<"p", "u", "b">>

----------------------------------------------------------------------------
(* The inputs of the model *)

V_1_0 == <<"1", ".", "0">>
V_1_1 == <<"1", ".", "1">>
\* "1.1" followed by an ANSI reset sequence, as a hostile registry may send
V_1_1_esc == <<"1", ".", "1", "ESC", "[", "0", "m">>
V_2_0 == <<"2", ".", "0">>
\* what PathSource returns for a command whose version it cannot extract
V_installed == <<"i", "n", "s", "t", "a", "l", "l", "e", "d">>

\* what get_version of each source may return for a package
Answers(name) ==
    CASE name = "path" -> {None, Some(V_1_0), Some(V_installed)}
      [] name = "uv"   -> {None, Some(V_1_1)}
      [] name = "brew" -> {None, Some(V_1_0), Some(V_1_1), Some(V_2_0)}
      [] name = "apt"  -> {None, Some(V_1_1_esc)}
      [] name = "npm"  -> {None, Some(V_2_0)}
      [] OTHER         -> {None}

\* the package names looked up
Packages == {<<"a", ".", "b">>}

\* the source lists lookup is called with
SourceLists == {
    <<"path", "brew", "apt">>,
    <<"uv", "path", "brew", "npm">>,
    <<"brew">> }

Modes == {"All", "Explicit", "Default"}

\* how many lookups one behaviour makes
MaxLookups == 2
\* how many times the clock advances
MaxTicks == 1

----------------------------------------------------------------------------
(* The cache, src/src/cache.rs *)

DEFAULT_TTL_SECS == 3600

\* sanitize(name): every character that is not alphanumeric, '-' or '_'
\* becomes '_'
sanitize(name) ==
    [i \in 1..Len(name) |->
        IF is_alphanumeric(name[i]) \/ name[i] = "-" \/ name[i] = "_"
        THEN name[i] ELSE "_"]

\* format!("{}-{}.json", source, sanitize(package))
FileName(source, pkg) ==
    NameChars(source) \o <<"-">> \o sanitize(pkg) \o <<".", "j", "s", "o", "n">>

CacheFiles == {FileName(s, p) : s \in SourceNames, p \in Packages}

\* cache::get with the age compared one second early
cache_get_early(dir, c, source, pkg, t) ==
    LET path == FileName(source, pkg) IN
    IF ~dir THEN [value |-> None, cache |-> c]
    ELSE IF c[path] = None THEN [value |-> None, cache |-> c]
    ELSE LET entry == Unwrap(c[path]) IN
         IF t - entry.timestamp + 1 < DEFAULT_TTL_SECS
         THEN [value |-> Some(entry.version), cache |-> c]
         ELSE [value |-> None, cache |-> [c EXCEPT ![path] = None]]

\* cache::get leaving an expired entry in place
cache_get_keeps_expired(dir, c, source, pkg, t) ==
    LET path == FileName(source, pkg) IN
    IF ~dir THEN [value |-> None, cache |-> c]
    ELSE IF c[path] = None THEN [value |-> None, cache |-> c]
    ELSE LET entry == Unwrap(c[path]) IN
         IF t - entry.timestamp < DEFAULT_TTL_SECS
         THEN [value |-> Some(entry.version), cache |-> c]
         ELSE [value |-> None, cache |-> c]

\* now - entry.timestamp < DEFAULT_TTL_SECS on u64, where the subtraction
\* wraps: a wrapped difference is 2^64 - (timestamp - now), which is below
\* the TTL only for a timestamp within the TTL of 2^64 + now; the
\* timestamps of the model are far below that
fresh(t, timestamp) ==
    IF t >= timestamp THEN t - timestamp < DEFAULT_TTL_SECS ELSE FALSE

\* cache::get stamping the entry anew on a hit
cache_get_touch(dir, c, source, pkg, t) ==
    LET path == FileName(source, pkg) IN
    IF ~dir THEN [value |-> None, cache |-> c]
    ELSE IF c[path] = None THEN [value |-> None, cache |-> c]
    ELSE LET entry == Unwrap(c[path]) IN
         IF fresh(t, entry.timestamp)
         THEN [value |-> Some(entry.version),
               cache |-> [c EXCEPT ![path] =
                             Some([version |-> entry.version, timestamp |-> t])]]
         ELSE [value |-> None, cache |-> [c EXCEPT ![path] = None]]

\* cache::get(source, package) at time t on directory c (present iff dir):
\* the value returned and the directory it leaves
cache_get(dir, c, source, pkg, t) ==
    LET path == FileName(source, pkg) IN
    IF ~dir THEN [value |-> None, cache |-> c]
    ELSE IF c[path] = None THEN [value |-> None, cache |-> c]
    ELSE LET entry == Unwrap(c[path]) IN
         IF fresh(t, entry.timestamp)
         THEN [value |-> Some(entry.version), cache |-> c]
         ELSE [value |-> None, cache |-> [c EXCEPT ![path] = None]]

\* now - entry.timestamp overflows: cache::get reads an entry stamped
\* after t. A build with overflow checks panics there; one without wraps.
get_overflows(dir, c, source, pkg, t) ==
    /\ dir
    /\ IsSome(c[FileName(source, pkg)])
    /\ t < Unwrap(c[FileName(source, pkg)]).timestamp

\* cache::set stamping every entry with the epoch, the value its unwrap_or
\* falls back to
cache_set_epoch(dir, c, source, pkg, version, t) ==
    IF ~dir THEN c
    ELSE [c EXCEPT ![FileName(source, pkg)] =
              Some([version |-> version, timestamp |-> 0])]

\* cache::set(source, package, version) at time t: the directory it leaves
cache_set(dir, c, source, pkg, version, t) ==
    IF ~dir THEN c
    ELSE [c EXCEPT ![FileName(source, pkg)] =
              Some([version |-> version, timestamp |-> t])]

\* the seconds that may pass between two reads of the clock
Elapsed == {0, DEFAULT_TTL_SECS - 1, DEFAULT_TTL_SECS}

----------------------------------------------------------------------------
(* Result types, src/src/main.rs *)

VersionInfo_new(version, source) ==
    [version |-> sanitize_output(version),
     source  |-> source,
     local   |-> is_local(source)]

\* get_install_commands: one command per available source that has one; a
\* command is kept as the source it installs from
get_install_commands(pkg, available) ==
    LET HasCommand(v) == v.source \in {"brew", "npm", "pip", "cargo", "go"}
        cmds == SelectSeq(available, HasCommand)
    IN  [i \in 1..Len(cmds) |-> cmds[i].source]

not_found(pkg) ==
    [package |-> pkg, status |-> "NotFound", installed |-> None,
     latest |-> None, available |-> <<>>, install_commands |-> <<>>,
     also_found_in |-> <<>>]

up_to_date(pkg, info, also_found_in) ==
    [package |-> pkg, status |-> "UpToDate", installed |-> Some(info),
     latest |-> Some(info), available |-> <<>>, install_commands |-> <<>>,
     also_found_in |-> also_found_in]

outdated(pkg, inst, latest, also_found_in) ==
    [package |-> pkg, status |-> "Outdated", installed |-> Some(inst),
     latest |-> Some(latest), available |-> <<>>, install_commands |-> <<>>,
     also_found_in |-> also_found_in]

\* not_installed leaving latest unset
not_installed_without_latest(pkg, available) ==
    [package |-> pkg, status |-> "NotInstalled", installed |-> None,
     latest |-> None,
     available |-> available,
     install_commands |-> get_install_commands(pkg, available),
     also_found_in |-> <<>>]

\* not_installed taking the last available version as latest
not_installed_last(pkg, available) ==
    [package |-> pkg, status |-> "NotInstalled", installed |-> None,
     latest |-> IF available = <<>> THEN None
                ELSE Some(available[Len(available)]),
     available |-> available,
     install_commands |-> get_install_commands(pkg, available),
     also_found_in |-> <<>>]

not_installed(pkg, available) ==
    [package |-> pkg, status |-> "NotInstalled", installed |-> None,
     latest |-> IF available = <<>> THEN None ELSE Some(available[1]),
     available |-> available,
     install_commands |-> get_install_commands(pkg, available),
     also_found_in |-> <<>>]

all_sources(pkg, available) ==
    [package |-> pkg,
     status |-> IF available = <<>> THEN "NotFound" ELSE "UpToDate",
     installed |-> None, latest |-> None, available |-> available,
     install_commands |-> <<>>, also_found_in |-> <<>>]

----------------------------------------------------------------------------
(* The lookup orchestrator, src/src/main.rs *)

Indices == 1..Len(sources)

\* a collect that stops at the first query that returned nothing
RECURSIVE CollectUntilNone(_, _, _, _)
CollectUntilNone(srcs, res, keep, i) ==
    IF i > Len(srcs) THEN <<>>
    ELSE IF i \in keep /\ res[i] = None THEN <<>>
    ELSE (IF i \in keep
          THEN <<[version |-> Unwrap(res[i]), source |-> srcs[i]]>>
          ELSE <<>>)
         \o CollectUntilNone(srcs, res, keep, i + 1)

\* the (version, source) pairs a parallel filter_map collects, in the order
\* of the source list, over the indices in keep
RECURSIVE CollectFrom(_, _, _, _)
CollectFrom(srcs, res, keep, i) ==
    IF i > Len(srcs) THEN <<>>
    ELSE (IF i \in keep /\ IsSome(res[i])
          THEN <<[version |-> Unwrap(res[i]), source |-> srcs[i]]>>
          ELSE <<>>)
         \o CollectFrom(srcs, res, keep, i + 1)

\* .map(|(v, s)| VersionInfo::new(&v, s)).collect()
VersionInfos(pairs) ==
    [i \in 1..Len(pairs) |-> VersionInfo_new(pairs[i].version, pairs[i].source)]

\* the closure with the comparison turned around: a later version that is
\* not older wins
compare_reversed(a, b) ==
    IF is_newer(b.version, a.version) THEN "Greater" ELSE "Less"

\* the closure given to max_by in lookup_default
compare(a, b) == IF is_newer(a.version, b.version) THEN "Less" ELSE "Greater"

\* Iterator::max_by: a fold that keeps the accumulator only when the
\* comparison says Greater
RECURSIVE max_by_fold(_, _)
max_by_fold(acc, rest) ==
    IF rest = <<>> THEN acc
    ELSE max_by_fold(IF compare(acc, Head(rest)) = "Greater"
                     THEN acc ELSE Head(rest),
                     Tail(rest))

max_by(pairs) ==
    IF pairs = <<>> THEN None ELSE Some(max_by_fold(Head(pairs), Tail(pairs)))

\* `newer` without the ecosystem filter
newer_of_any_ecosystem(inst_version, inst_ecosystem, registry_versions) ==
    LET Newer(r) == is_newer(inst_version, r.version)
    IN  max_by(SelectSeq(registry_versions, Newer))

\* lookup_default, `newer`: the newest same-ecosystem registry version that
\* is newer than the installed one
newer_of(inst_version, inst_ecosystem, registry_versions) ==
    LET SameEco(r) == ecosystem(r.source) = inst_ecosystem
        Newer(r) == is_newer(inst_version, r.version)
    IN  max_by(SelectSeq(SelectSeq(registry_versions, SameEco), Newer))

\* `also_found_in` without the ecosystem filter
also_found_in_all(inst_ecosystem, registry_versions) ==
    [i \in 1..Len(registry_versions) |-> registry_versions[i].source]

\* lookup_default, `also_found_in`
also_found_in_of(inst_ecosystem, registry_versions) ==
    LET OtherEco(r) == ecosystem(r.source) # inst_ecosystem
        others == SelectSeq(registry_versions, OtherEco)
    IN  [i \in 1..Len(others) |-> others[i].source]

\* lookup_default, from `match installed` on: inst is Option<(version, source)>
lookup_default_match(pkg, inst, registry_versions) ==
    IF IsSome(inst)
    THEN LET inst_version == Unwrap(inst).version
             inst_source == Unwrap(inst).source
             inst_ecosystem == ecosystem(inst_source)
             newer == newer_of(inst_version, inst_ecosystem, registry_versions)
             also_found_in == also_found_in_of(inst_ecosystem, registry_versions)
             installed_info == VersionInfo_new(inst_version, inst_source)
         IN  IF IsSome(newer)
             THEN outdated(pkg, installed_info,
                           VersionInfo_new(Unwrap(newer).version, Unwrap(newer).source),
                           also_found_in)
             ELSE up_to_date(pkg, installed_info, also_found_in)
    ELSE IF registry_versions # <<>>
    THEN not_installed(pkg, VersionInfos(registry_versions))
    ELSE not_found(pkg)

\* LookupMode::All over the non-local sources only
lookup_all_non_local(pkg, srcs, res) ==
    all_sources(pkg, VersionInfos(CollectFrom(srcs, res,
        {i \in 1..Len(srcs) : ~is_local(srcs[i])}, 1)))

\* lookup, LookupMode::All: what it returns once every query has returned
lookup_all(pkg, srcs, res) ==
    all_sources(pkg, VersionInfos(CollectFrom(srcs, res, 1..Len(srcs), 1)))

\* LookupMode::Explicit building its result with the constructor of All
lookup_explicit_as_all(pkg, any) ==
    IF IsSome(any)
    THEN all_sources(pkg, <<VersionInfo_new(Unwrap(any).version, Unwrap(any).source)>>)
    ELSE not_found(pkg)

\* lookup, LookupMode::Explicit: what it returns for the find_map_any result
lookup_explicit(pkg, any) ==
    IF IsSome(any)
    THEN up_to_date(pkg, VersionInfo_new(Unwrap(any).version, Unwrap(any).source), <<>>)
    ELSE not_found(pkg)

\* lookup_default: what it returns for the find_map_any result over the local
\* sources and the results of the registry queries
lookup_default(pkg, srcs, any, res) ==
    LET non_local == {i \in 1..Len(srcs) : ~is_local(srcs[i])}
    IN  lookup_default_match(pkg, any, CollectFrom(srcs, res, non_local, 1))

----------------------------------------------------------------------------
(* The state machine *)

\* the cache directory before anything is stored
StoreInit ==
    /\ now = 0
    /\ ticks = 0
    /\ cache_dir \in BOOLEAN
    /\ cache = [f \in CacheFiles |-> None]

\* no lookup has been called
LookupInit ==
    /\ written = [k \in SourceNames \X Packages |-> None]
    /\ lookups = 0
    /\ package = <<>>
    /\ sources = <<>>
    /\ mode = "Default"
    /\ use_cache = TRUE
    /\ pc = "idle"
    /\ task = <<>>
    /\ pending = <<>>
    /\ got_at = <<>>
    /\ qres = <<>>
    /\ qfrom = <<>>
    /\ found = None
    /\ result = None

\* the parts a specification does not run
CallIdle == calls = <<>> /\ stored_by = [f \in CacheFiles |-> None]
VersionIdle == va = <<>> /\ vb = <<>> /\ vc = <<>> /\ verdict = None
ResultIdle == made = None /\ seen = {}
MainIdle ==
    /\ cli = [source |-> None] /\ main_pc = "start" /\ slots = <<>>
    /\ finished = <<>> /\ results = <<>> /\ exit_code = None
    /\ queried = {} /\ out = None
RunIdle ==
    /\ timeout = 0 /\ child = "none" /\ elapsed = 0 /\ rt_pc = "spawn"
    /\ rt_ret = None
AdapterIdle == adapter = "none" /\ ad_pc = "idle" /\ flag = 0 /\ ad_ret = None
WriteIdle == disk = <<>> /\ wr = <<>> /\ read_back = None

Init ==
    /\ StoreInit /\ LookupInit
    /\ CallIdle /\ VersionIdle /\ ResultIdle /\ MainIdle /\ RunIdle
    /\ AdapterIdle /\ WriteIdle

\* SystemTime::now() is read after d more seconds: now is the clock as a
\* step that reads it sees it, and time passes between such steps
Elapse(d) ==
    /\ d # 0 => ticks < MaxTicks
    /\ now' = now + d
    /\ ticks' = IF d = 0 THEN ticks ELSE ticks + 1

\* lookup(p, l, m, u) is called
Start(p, l, m, u) ==
    /\ pc \in {"idle", "done"}
    /\ lookups < MaxLookups
    /\ lookups' = lookups + 1
    /\ package' = p
    /\ sources' = l
    /\ mode' = m
    /\ use_cache' = u
    /\ pc' = IF m = "Default" THEN "local" ELSE "query"
    /\ task' = [i \in 1..Len(l) |->
                  IF m = "Default" /\ ~is_local(l[i]) THEN "wait" ELSE "start"]
    /\ pending' = [i \in 1..Len(l) |-> None]
    /\ got_at' = [i \in 1..Len(l) |-> None]
    /\ qres' = [i \in 1..Len(l) |-> None]
    /\ qfrom' = [i \in 1..Len(l) |-> "none"]
    /\ found' = None
    /\ result' = None
    /\ UNCHANGED <<now, ticks, cache_dir, written, cache>>
    /\ UNCHANGED beyond_lookup

\* find_map_any keeps a success: the first one, or any later one that was
\* already running
Keeps(i, value) ==
    IF IsSome(value)
    THEN \/ found' = Some([version |-> Unwrap(value), index |-> i])
         \/ IsSome(found) /\ found' = found
    ELSE found' = found

\* the query of sources[i] returns value
Return(i, value, from) ==
    /\ qres' = [qres EXCEPT ![i] = value]
    /\ qfrom' = [qfrom EXCEPT ![i] = from]
    /\ task' = [task EXCEPT ![i] = "done"]
    /\ IF mode = "Explicit" THEN Keeps(i, value) ELSE found' = found

\* find_map_any starts no item once one is found
MayStart(i) ==
    /\ task[i] = "start"
    /\ mode = "Explicit" => found = None

\* lookup_default: s.get_version(package) on a local source
LocalReady(i) == pc = "local" /\ task[i] = "start" /\ found = None

LocalGetVersion(i) ==
    /\ LocalReady(i)
    /\ \E a \in Answers(sources[i]) :
         /\ qres' = [qres EXCEPT ![i] = a]
         /\ qfrom' = [qfrom EXCEPT ![i] = "adapter"]
         /\ Keeps(i, a)
    /\ task' = [task EXCEPT ![i] = "done"]
    /\ UNCHANGED <<now, ticks, cache_dir, written, cache, lookups, package, sources,
                   mode, use_cache, pc, pending, got_at, result>>
    /\ UNCHANGED beyond_lookup

\* lookup_default: the search over the local sources is over and the
\* registry queries start
LocalOver ==
    /\ pc = "local"
    /\ IsSome(found) \/ \A i \in Indices : task[i] \in {"done", "wait"}

StartRegistry ==
    /\ LocalOver
    /\ pc' = "registry"
    /\ task' = [i \in Indices |-> IF task[i] = "wait" THEN "start" ELSE task[i]]
    /\ UNCHANGED <<now, ticks, cache_dir, written, cache, lookups, package, sources,
                   mode, use_cache, pending, got_at, qres, qfrom, found,
                   result>>
    /\ UNCHANGED beyond_lookup

\* query_source writing a local source's version through to the cache
QsLocal_cached(i) ==
    /\ pc = "query" /\ MayStart(i) /\ is_local(sources[i])
    /\ \E a \in Answers(sources[i]) :
         /\ Return(i, a, "adapter")
         /\ cache' = IF IsSome(a) /\ use_cache
                     THEN cache_set(cache_dir, cache, sources[i], package,
                                    Unwrap(a), now)
                     ELSE cache
    /\ UNCHANGED <<now, ticks, cache_dir, written, lookups, package, sources,
                   mode, use_cache, pc, pending, got_at, result>>
    /\ UNCHANGED beyond_lookup

\* query_source on a local source: get_version, no cache
QsLocalReady(i) == pc = "query" /\ MayStart(i) /\ is_local(sources[i])

QsLocal(i) ==
    /\ QsLocalReady(i)
    /\ \E a \in Answers(sources[i]) : Return(i, a, "adapter")
    /\ UNCHANGED <<now, ticks, cache_dir, written, cache, lookups, package, sources,
                   mode, use_cache, pc, pending, got_at, result>>
    /\ UNCHANGED beyond_lookup

\* query_source on a non-local source with use_cache: cache::get
QsCacheGetReady(i) ==
    /\ pc \in {"query", "registry"}
    /\ MayStart(i)
    /\ ~is_local(sources[i])
    /\ use_cache

QsCacheGet(i) ==
    /\ QsCacheGetReady(i)
    /\ \E d \in Elapsed : Elapse(d)
    /\ LET got == cache_get(cache_dir, cache, sources[i], package, now') IN
         /\ cache' = got.cache
         /\ IF IsSome(got.value)
            THEN Return(i, got.value, "cache")
            ELSE /\ task' = [task EXCEPT ![i] = "fetch"]
                 /\ UNCHANGED <<qres, qfrom, found>>
    /\ UNCHANGED <<cache_dir, written, lookups, package, sources, mode, use_cache, pc,
                   pending, got_at, result>>
    /\ UNCHANGED beyond_lookup

\* query_source storing an empty version when get_version returns nothing
QsGetVersion_caches_failure(i) ==
    /\ pc \in {"query", "registry"}
    /\ ~is_local(sources[i])
    /\ task[i] = "fetch" \/ (MayStart(i) /\ ~use_cache)
    /\ \E a \in Answers(sources[i]) :
         IF IsSome(a) /\ use_cache
         THEN /\ task' = [task EXCEPT ![i] = "store"]
              /\ pending' = [pending EXCEPT ![i] = a]
              /\ got_at' = [got_at EXCEPT ![i] = Some(now)]
              /\ UNCHANGED <<qres, qfrom, found, cache>>
         ELSE /\ Return(i, a, "adapter")
              /\ cache' = IF a = None /\ use_cache
                          THEN cache_set(cache_dir, cache, sources[i],
                                         package, <<>>, now)
                          ELSE cache
              /\ UNCHANGED <<pending, got_at>>
    /\ UNCHANGED <<now, ticks, cache_dir, written, lookups, package, sources,
                   mode, use_cache, pc, result>>
    /\ UNCHANGED beyond_lookup

\* query_source on a non-local source: get_version, after a cache miss or
\* with the cache disabled
QsGetVersionReady(i) ==
    /\ pc \in {"query", "registry"}
    /\ ~is_local(sources[i])
    /\ task[i] = "fetch" \/ (MayStart(i) /\ ~use_cache)

QsGetVersion(i) ==
    /\ QsGetVersionReady(i)
    /\ \E a \in Answers(sources[i]) :
         IF IsSome(a) /\ use_cache
         THEN /\ task' = [task EXCEPT ![i] = "store"]
              /\ pending' = [pending EXCEPT ![i] = a]
              /\ got_at' = [got_at EXCEPT ![i] = Some(now)]
              /\ UNCHANGED <<qres, qfrom, found>>
         ELSE /\ Return(i, a, "adapter")
              /\ UNCHANGED <<pending, got_at>>
    /\ UNCHANGED <<now, ticks, cache_dir, written, cache, lookups, package, sources,
                   mode, use_cache, pc, result>>
    /\ UNCHANGED beyond_lookup

\* query_source on a non-local source with use_cache: cache::set of the
\* version get_version returned, which query_source then returns
QsCacheSetReady(i) == pc \in {"query", "registry"} /\ task[i] = "store"

QsCacheSet(i) ==
    /\ QsCacheSetReady(i)
    /\ \E d \in Elapsed : Elapse(d)
    /\ cache' = cache_set(cache_dir, cache, sources[i], package,
                          Unwrap(pending[i]), now')
    /\ written' = IF cache_dir
                  THEN [written EXCEPT ![<<sources[i], package>>] =
                           Some([version |-> Unwrap(pending[i]), at |-> now',
                                 got |-> Unwrap(got_at[i])])]
                  ELSE written
    /\ pending' = [pending EXCEPT ![i] = None]
    /\ got_at' = [got_at EXCEPT ![i] = None]
    /\ Return(i, pending[i], "adapter")
    /\ UNCHANGED <<cache_dir, lookups, package, sources, mode, use_cache, pc,
                   result>>
    /\ UNCHANGED beyond_lookup

NoneRunning == \A i \in Indices : task[i] \in {"start", "done"}
AllReturned == \A i \in Indices : task[i] = "done"

\* the version found paired with the first local source of the list
FoundPair_first_local ==
    LET locals == {i \in Indices : is_local(sources[i])} IN
    IF IsSome(found)
    THEN Some([version |-> Unwrap(found).version,
               source |-> IF locals = {} THEN sources[Unwrap(found).index]
                          ELSE sources[CHOOSE i \in locals :
                                           \A j \in locals : i <= j]])
    ELSE None

\* the source of the find_map_any result, by name
FoundPair ==
    IF IsSome(found)
    THEN Some([version |-> Unwrap(found).version,
               source |-> sources[Unwrap(found).index]])
    ELSE None

\* lookup returns, LookupMode::All
AllOver == pc = "query" /\ mode = "All" /\ AllReturned

ReturnAll ==
    /\ AllOver
    /\ result' = Some(lookup_all(package, sources, qres))
    /\ pc' = "done"
    /\ UNCHANGED <<now, ticks, cache_dir, written, cache, lookups, package, sources,
                   mode, use_cache, task, pending, got_at, qres, qfrom,
                   found>>
    /\ UNCHANGED beyond_lookup

\* lookup returns, LookupMode::Explicit
ExplicitOver ==
    /\ pc = "query" /\ mode = "Explicit"
    /\ NoneRunning
    /\ IsSome(found) \/ AllReturned

ReturnExplicit ==
    /\ ExplicitOver
    /\ result' = Some(lookup_explicit(package, FoundPair))
    /\ pc' = "done"
    /\ UNCHANGED <<now, ticks, cache_dir, written, cache, lookups, package, sources,
                   mode, use_cache, task, pending, got_at, qres, qfrom,
                   found>>
    /\ UNCHANGED beyond_lookup

\* lookup returns, LookupMode::Default
DefaultOver ==
    /\ pc = "registry"
    /\ \A i \in Indices : ~is_local(sources[i]) => task[i] = "done"

ReturnDefault ==
    /\ DefaultOver
    /\ result' = Some(lookup_default(package, sources, FoundPair, qres))
    /\ pc' = "done"
    /\ UNCHANGED <<now, ticks, cache_dir, written, cache, lookups, package, sources,
                   mode, use_cache, task, pending, got_at, qres, qfrom,
                   found>>
    /\ UNCHANGED beyond_lookup

\* a step of lookup; the specification Spec
LookupStep ==
    \/ \E p \in Packages, l \in SourceLists, m \in Modes, u \in BOOLEAN :
         Start(p, l, m, u)
    \/ \E i \in Indices : LocalGetVersion(i)
    \/ StartRegistry
    \/ \E i \in Indices : QsLocal(i)
    \/ \E i \in Indices : QsCacheGet(i)
    \/ \E i \in Indices : QsGetVersion(i)
    \/ \E i \in Indices : QsCacheSet(i)
    \/ ReturnAll
    \/ ReturnExplicit
    \/ ReturnDefault

Next == LookupStep

Spec == Init /\ [][Next]_vars

----------------------------------------------------------------------------
(* lookup_default applied to what the queries of one lookup returned, over
   more version strings; the specification AnswerSpec *)

V_0_9 == <<"0", ".", "9">>
\* "1.0" followed by the ANSI sequence that switches to bold
V_1_0_bold == <<"1", ".", "0", "ESC", "[", "1", "m">>
\* a version without a digit, as Homebrew gives for some casks
V_latest == <<"l", "a", "t", "e", "s", "t">>

AnswerSources == <<"uv", "path", "brew", "apt", "npm">>

\* what get_version of each source may return
MoreAnswers(name) ==
    CASE name = "path" -> {None, Some(V_1_0), Some(V_installed)}
      [] name = "uv"   -> {None, Some(V_1_1)}
      [] name = "brew" -> {None, Some(V_0_9), Some(V_2_0), Some(V_latest)}
      [] name = "apt"  -> {None, Some(V_0_9), Some(V_1_0_bold)}
      [] name = "npm"  -> {None, Some(V_2_0)}

\* lookup_default with every query returned: the search over the local
\* sources holds one of their successes, the cache is not used
AnswerInit ==
    /\ StoreInit /\ cache_dir
    /\ written = [k \in SourceNames \X Packages |-> None]
    /\ lookups = 1
    /\ package \in Packages
    /\ sources = AnswerSources
    /\ mode = "Default"
    /\ use_cache = FALSE
    /\ pc = "registry"
    /\ task = [i \in 1..Len(AnswerSources) |-> "done"]
    /\ pending = [i \in 1..Len(AnswerSources) |-> None]
    /\ got_at = [i \in 1..Len(AnswerSources) |-> None]
    /\ qfrom = [i \in 1..Len(AnswerSources) |-> "adapter"]
    /\ qres \in [1..Len(AnswerSources) -> {None} \cup
                    {Some(v) : v \in {V_1_0, V_1_1, V_2_0, V_installed, V_0_9,
                                      V_1_0_bold, V_latest}}]
    /\ \A i \in 1..Len(AnswerSources) : qres[i] \in MoreAnswers(AnswerSources[i])
    /\ found \in {None} \cup
                  {Some([version |-> v, index |-> i]) :
                      v \in {V_1_0, V_1_1, V_installed},
                      i \in 1..Len(AnswerSources)}
    /\ IF \E i \in 1..Len(AnswerSources) :
              is_local(AnswerSources[i]) /\ IsSome(qres[i])
       THEN /\ IsSome(found)
            /\ is_local(AnswerSources[Unwrap(found).index])
            /\ qres[Unwrap(found).index] = Some(Unwrap(found).version)
       ELSE found = None
    /\ result = None
    /\ CallIdle /\ VersionIdle /\ ResultIdle /\ MainIdle /\ RunIdle
    /\ AdapterIdle /\ WriteIdle

AnswerNext == ReturnDefault

AnswerSpec == AnswerInit /\ [][AnswerNext]_vars

----------------------------------------------------------------------------
(* cache::get and cache::set called directly; the specification CacheSpec *)

\* the source names, package names and version strings of the calls: two
\* package names that sanitize to one file name, and the empty version
CallSources == {"brew", "npm"}
CallPackages == Packages \cup {<<"a", "_", "b">>}
CallVersions == {V_1_0, V_2_0, <<>>}

\* the last two calls, the newest first
Record(c) == IF calls = <<>> THEN <<c>> ELSE <<c, calls[1]>>

\* cache::set(s, p, v), reading the clock d seconds after the last read
CallSet(s, p, v) ==
    /\ \E d \in Elapsed :
         /\ Elapse(d)
         /\ cache' = cache_set(cache_dir, cache, s, p, v, now')
         /\ calls' = Record([op |-> "set", source |-> s, package |-> p,
                             version |-> v, ret |-> None, at |-> now',
                             panicked |-> FALSE])
    /\ stored_by' = IF cache_dir
                    THEN [stored_by EXCEPT ![FileName(s, p)] = Some(<<s, p>>)]
                    ELSE stored_by
    /\ UNCHANGED <<cache_dir, lookup_vars, version_vars, result_vars,
                   main_vars, run_vars, adapter_vars,
                   write_vars>>

\* cache::get(s, p), reading the clock d seconds after the last read; where
\* the subtraction overflows the call panics or goes on with the wrapped
\* difference, as the build has it
CallGet(s, p) ==
    /\ \E d \in Elapsed :
         /\ Elapse(d)
         /\ \E panics \in {FALSE, get_overflows(cache_dir, cache, s, p, now')} :
              LET r == IF panics THEN [value |-> None, cache |-> cache]
                       ELSE cache_get(cache_dir, cache, s, p, now')
              IN  /\ cache' = r.cache
                  /\ calls' = Record([op |-> "get", source |-> s,
                                      package |-> p, version |-> <<>>,
                                      ret |-> r.value, at |-> now',
                                      panicked |-> panics])
                  /\ stored_by' = [f \in CacheFiles |->
                                     IF r.cache[f] = None THEN None
                                     ELSE stored_by[f]]
    /\ UNCHANGED <<cache_dir, lookup_vars, version_vars, result_vars,
                   main_vars, run_vars, adapter_vars,
                   write_vars>>

CacheNext ==
    \/ \E s \in CallSources, p \in CallPackages, v \in CallVersions :
         CallSet(s, p, v)
    \/ \E s \in CallSources, p \in CallPackages : CallGet(s, p)

CacheSpec == Init /\ [][CacheNext]_vars

----------------------------------------------------------------------------
(* The cache under a system clock that is set back; the specification
   SkewSpec *)

\* by how many seconds the clock is set back
SetBack == {1, DEFAULT_TTL_SECS}

\* the clock reads DEFAULT_TTL_SECS at the start, so that it can go back
SkewInit ==
    /\ now = DEFAULT_TTL_SECS /\ ticks = 0 /\ cache_dir \in BOOLEAN
    /\ cache = [f \in CacheFiles |-> None]
    /\ LookupInit
    /\ CallIdle /\ VersionIdle /\ ResultIdle /\ MainIdle /\ RunIdle
    /\ AdapterIdle /\ WriteIdle

\* the system time is set back by d seconds between two calls
ClockBack(d) ==
    /\ ticks < MaxTicks /\ now >= d
    /\ now' = now - d
    /\ ticks' = ticks + 1
    /\ UNCHANGED <<cache_dir, cache, lookup_vars, call_vars, version_vars,
                   result_vars, main_vars, run_vars, adapter_vars,
                   write_vars>>

SkewNext ==
    \/ \E s \in CallSources, p \in CallPackages, v \in CallVersions :
         CallSet(s, p, v)
    \/ \E s \in CallSources, p \in CallPackages : CallGet(s, p)
    \/ \E d \in SetBack : ClockBack(d)

SkewSpec == SkewInit /\ [][SkewNext]_vars

----------------------------------------------------------------------------
(* is_newer applied to version strings; the specification VersionSpec *)

\* the number of dot-separated components of version_strategy
MaxComponents == 4

Components == {<<"0">>, <<"1">>}

\* the strings of n components
RECURSIVE Dotted(_)
Dotted(n) ==
    IF n = 1 THEN Components
    ELSE {c \o <<".">> \o r : c \in Components, r \in Dotted(n - 1)}

\* more strings of version_strategy: other numbers, several digits, a
\* leading zero, '-' suffixes with and without digits
MoreVersions == {
    <<"2">>,
    <<"1", "0">>,
    <<"0", "1">>,
    <<"1", ".", "2">>,
    <<"0", ".", "2">>,
    <<"1", ".", "9">>,
    <<"1", ".", "1", "0">>,
    <<"1", ".", "0", ".", "2">>,
    <<"1", "-", "a">>,
    <<"1", ".", "0", "-", "r", "c", "1">>,
    <<"0", ".", "1", "-", "2">>,
    <<"1", ".", "0", ".", "0", ".", "0", "-", "b">> }

\* strings of version_strategy: 1 to 4 dot-separated numeric components and
\* an optional '-' alphanumeric suffix
WellFormed == UNION {Dotted(n) : n \in 1..MaxComponents} \cup MoreVersions

\* u64::MAX + 1
U64Overflow == Append(SubSeq(U64MaxDigits, 1, Len(U64MaxDigits) - 1), "6")

\* other strings: empty, without digits, non-ASCII ("EACUTE" is one
\* non-ASCII character), empty tokens, digit runs at and above u64::MAX
Garbage == {
    <<>>,
    <<"a", "b", "c">>,
    <<"EACUTE">>,
    <<"1", ".", ".", "2">>,
    <<".">>,
    <<"v", "1">>,
    <<"1", ".", "-">> } \cup {U64MaxDigits, U64Overflow}

AnyString == WellFormed \cup Garbage

\* the part of the cache that no call of is_newer touches
StoreIdle == StoreInit /\ cache_dir

VersionInit ==
    /\ va \in AnyString /\ vb \in AnyString /\ vc \in WellFormed
    /\ verdict = None
    /\ StoreIdle /\ LookupInit
    /\ CallIdle /\ ResultIdle /\ MainIdle /\ RunIdle
    /\ AdapterIdle /\ WriteIdle

\* is_newer is called on the pairs of the three strings
Compare ==
    /\ verdict = None
    /\ verdict' = Some([ab |-> is_newer(va, vb), ba |-> is_newer(vb, va),
                        bc |-> is_newer(vb, vc), ac |-> is_newer(va, vc),
                        aa |-> is_newer(va, va)])
    /\ UNCHANGED <<va, vb, vc, store_vars, lookup_vars, call_vars,
                   result_vars, main_vars, run_vars, adapter_vars,
                   write_vars>>

VersionNext == Compare

VersionSpec == VersionInit /\ [][VersionNext]_vars

----------------------------------------------------------------------------
(* The PackageResult constructors called as lookup calls them; the
   specification ResultSpec *)

\* the longest list of available versions
MaxAvailable == 2

\* VersionInfo::new over some versions and sources
LocalInfos == {VersionInfo_new(v, "path") : v \in {V_1_0, V_2_0}}
RegistryInfos ==
    {VersionInfo_new(v, n) : v \in {V_1_0, V_2_0}, n \in {"brew", "npm"}}

\* the sequences over S of length at most n
SeqsUpTo(S, n) == UNION {[1..k -> S] : k \in 0..n}

\* which optional fields of r are populated, whether latest is the
\* installed version, and the status
Populated(r) ==
    [installed |-> IsSome(r.installed), latest |-> IsSome(r.latest),
     available |-> r.available # <<>>,
     same |-> IsSome(r.installed) /\ r.latest = r.installed,
     status |-> r.status]

\* what a constructor leaves alone
beyond_result == <<store_vars, lookup_vars, call_vars, version_vars,
                   main_vars, run_vars, adapter_vars,
                   write_vars>>

\* PackageResult::not_found(p)
New_not_found(p) ==
    /\ made' = Some(not_found(p))
    /\ seen' = seen \cup {Populated(not_found(p))}
    /\ UNCHANGED beyond_result

\* PackageResult::up_to_date(p, info, also): lookup gives it the version
\* found, of a local or of a non-local source
New_up_to_date(p, info, also) ==
    /\ made' = Some(up_to_date(p, info, also))
    /\ seen' = seen \cup {Populated(up_to_date(p, info, also))}
    /\ UNCHANGED beyond_result

\* PackageResult::outdated(p, inst, latest, also): lookup_default gives it
\* the version of a local source and one of a non-local source
New_outdated(p, inst, latest, also) ==
    /\ made' = Some(outdated(p, inst, latest, also))
    /\ seen' = seen \cup {Populated(outdated(p, inst, latest, also))}
    /\ UNCHANGED beyond_result

\* PackageResult::not_installed(p, available): lookup_default gives it a
\* list that is not empty
New_not_installed(p, available) ==
    /\ available # <<>>
    /\ made' = Some(not_installed(p, available))
    /\ seen' = seen \cup {Populated(not_installed(p, available))}
    /\ UNCHANGED beyond_result

\* PackageResult::all_sources(p, available)
New_all_sources(p, available) ==
    /\ made' = Some(all_sources(p, available))
    /\ seen' = seen \cup {Populated(all_sources(p, available))}
    /\ UNCHANGED beyond_result

ResultInit ==
    /\ ResultIdle
    /\ StoreIdle /\ LookupInit
    /\ CallIdle /\ VersionIdle /\ MainIdle /\ RunIdle
    /\ AdapterIdle /\ WriteIdle

ResultNext ==
    \/ \E p \in Packages : New_not_found(p)
    \/ \E p \in Packages, info \in LocalInfos \cup RegistryInfos,
          also \in {<<>>, <<"npm">>} : New_up_to_date(p, info, also)
    \/ \E p \in Packages, inst \in LocalInfos, latest \in RegistryInfos,
          also \in {<<>>, <<"npm">>} : New_outdated(p, inst, latest, also)
    \/ \E p \in Packages, available \in SeqsUpTo(RegistryInfos, MaxAvailable) :
         New_not_installed(p, available)
    \/ \E p \in Packages,
          available \in SeqsUpTo(LocalInfos \cup RegistryInfos, MaxAvailable) :
         New_all_sources(p, available)

ResultSpec == ResultInit /\ [][ResultNext]_vars

----------------------------------------------------------------------------
(* main: the packages of one invocation resolved in parallel; the
   specification MainSpec *)

\* how many package arguments an invocation has
MaxPackages == 2

\* package arguments: plain, with a source prefix, with a prefix that is
\* no source
MainArgs == {
    <<"x">>,
    <<"n", "p", "m", ":", "x">>,
    <<"n", "o", ":", "y">> }

\* values of --source: a non-local source, a local one, no source
SourceArgs == {"brew", "path", "nope"}

\* what project::scan may find
Projects == {None, Some([source |-> "npm", packages |-> <<<<"y">>, <<"x">>>>])}

\* config.precedence
Precedences == {<<"path", "brew", "npm">>}

\* what a query of a source may return to a closure of main, from its
\* adapter or from the cache
MainAnswers(name) ==
    Answers(name) \cap (IF is_local(name) THEN {None, Some(V_1_0)}
                                          ELSE {None, Some(V_2_0)})

\* arg.split_once(':'): the position of the first ':', 0 if there is none
FirstColon(arg) ==
    IF \E i \in 1..Len(arg) : arg[i] = ":"
    THEN CHOOSE i \in 1..Len(arg) :
             arg[i] = ":" /\ \A j \in 1..(i - 1) : arg[j] # ":"
    ELSE 0

\* parse_package_arg(arg): (Option<source>, package)
parse_package_arg(arg) ==
    LET i == FirstColon(arg)
        prefix == SubSeq(arg, 1, i - 1)
        known == {n \in SourceNames :
                     NameChars(n) = prefix /\ IsSome(source_by_name(n))}
    IN  IF i # 0 /\ known # {}
        THEN [source |-> Some(CHOOSE n \in known : TRUE),
              pkg |-> SubSeq(arg, i + 1, Len(arg))]
        ELSE [source |-> None, pkg |-> arg]

\* main, `packages`: the parsed arguments, or the packages of the project
packages_of(c) ==
    IF c.args = <<>>
    THEN IF IsSome(c.project)
         THEN [k \in 1..Len(Unwrap(c.project).packages) |->
                  [source |-> None, pkg |-> Unwrap(c.project).packages[k]]]
         ELSE <<>>
    ELSE [k \in 1..Len(c.args) |-> parse_package_arg(c.args[k])]

\* main, `global_source`: --source, or else the source of the project
global_source(c) ==
    IF IsSome(c.source) THEN c.source
    ELSE IF c.args = <<>> /\ IsSome(c.project)
         THEN Some(Unwrap(c.project).source)
         ELSE None

\* the closure, `source_name`: the prefix, or else the global source
source_name(c, k) ==
    IF IsSome(packages_of(c)[k].source) THEN packages_of(c)[k].source
    ELSE global_source(c)

\* the offline filter applied to the precedence list only
sources_to_use_pinned_first(c, k) ==
    IF IsSome(source_name(c, k))
    THEN IF IsSome(source_by_name(Unwrap(source_name(c, k))))
         THEN <<Unwrap(source_name(c, k))>>
         ELSE <<>>
    ELSE IF c.offline THEN SelectSeq(c.precedence, is_local) ELSE c.precedence

\* the closure, `sources_to_use`
sources_to_use(c, k) ==
    LET named == IF IsSome(source_name(c, k))
                 THEN IF IsSome(source_by_name(Unwrap(source_name(c, k))))
                      THEN <<Unwrap(source_name(c, k))>>
                      ELSE <<>>
                 ELSE c.precedence
    IN  IF c.offline THEN SelectSeq(named, is_local) ELSE named

\* the closure, `mode`
mode_of(c, k) ==
    IF c.all THEN "All"
    ELSE IF IsSome(source_name(c, k)) THEN "Explicit"
    ELSE "Default"

\* what find_map_any may return over the sources of keep
AnyOf(srcs, res, keep) ==
    IF \E i \in keep : IsSome(res[i])
    THEN {Some([version |-> Unwrap(res[i]), source |-> srcs[i]]) :
             i \in {j \in keep : IsSome(res[j])}}
    ELSE {None}

\* what lookup(pkg, srcs, m, _) may return when the queries return res
lookup_results(pkg, srcs, m, res) ==
    CASE m = "All" -> {lookup_all(pkg, srcs, res)}
      [] m = "Explicit" ->
           {lookup_explicit(pkg, any) : any \in AnyOf(srcs, res, 1..Len(srcs))}
      [] m = "Default" ->
           {lookup_default(pkg, srcs, any, res) :
               any \in AnyOf(srcs, res, {i \in 1..Len(srcs) : is_local(srcs[i])})}

\* the results of the closures, collected in the order of the finished list
collect_as_finished(s, order) ==
    [k \in 1..Len(s) |-> Unwrap(s[order[k]])]

\* packages.par_iter().map(..).collect(): the results in the order of the
\* packages
collect(s, order) == [k \in 1..Len(s) |-> Unwrap(s[k])]

MainInit ==
    /\ cli \in [args : SeqsUpTo(MainArgs, MaxPackages),
                source : {None} \cup {Some(n) : n \in SourceArgs},
                all : BOOLEAN, offline : BOOLEAN,
                project : Projects, precedence : Precedences]
    \* project::scan is called only without package arguments
    /\ cli.args # <<>> => cli.project = None
    /\ main_pc = "start" /\ slots = <<>> /\ finished = <<>>
    /\ results = <<>> /\ exit_code = None
    /\ queried = {} /\ out = None
    /\ StoreIdle /\ LookupInit
    /\ CallIdle /\ VersionIdle /\ ResultIdle /\ RunIdle
    /\ AdapterIdle /\ WriteIdle

beyond_main == <<store_vars, lookup_vars, call_vars, version_vars,
                 result_vars, run_vars, adapter_vars, write_vars>>

\* main up to the parallel map: no package and no project, or an unknown
\* --source, ends the process with code 1
Prepare ==
    /\ main_pc = "start"
    /\ IF packages_of(cli) = <<>>
       THEN main_pc' = "exit" /\ exit_code' = Some(1) /\ slots' = slots
       ELSE IF IsSome(cli.source) /\ source_by_name(Unwrap(cli.source)) = None
       THEN main_pc' = "exit" /\ exit_code' = Some(1) /\ slots' = slots
       ELSE /\ main_pc' = "map"
            /\ slots' = [k \in 1..Len(packages_of(cli)) |-> None]
            /\ exit_code' = exit_code
    /\ UNCHANGED <<cli, finished, results, queried, out, beyond_main>>

\* the closure of package k runs, whenever rayon schedules it
Closure(k) ==
    /\ main_pc = "map"
    /\ slots[k] = None
    /\ LET pkg == packages_of(cli)[k].pkg
           srcs == sources_to_use(cli, k)
       IN  /\ IF srcs = <<>>
              THEN slots' = [slots EXCEPT ![k] = Some(not_found(pkg))]
              ELSE \E res \in [1..Len(srcs) -> {None, Some(V_1_0), Some(V_2_0)}] :
                       /\ \A i \in 1..Len(srcs) : res[i] \in MainAnswers(srcs[i])
                       /\ \E r \in lookup_results(pkg, srcs, mode_of(cli, k), res) :
                              slots' = [slots EXCEPT ![k] = Some(r)]
           \* lookup queries no source but those it is given
           /\ queried' = queried \cup {<<k, srcs[i]>> : i \in 1..Len(srcs)}
    /\ finished' = Append(finished, k)
    /\ UNCHANGED <<cli, main_pc, results, exit_code, out, beyond_main>>

\* collect returns once every closure has
Collect ==
    /\ main_pc = "map"
    /\ \A k \in DOMAIN slots : IsSome(slots[k])
    /\ results' = collect(slots, finished)
    /\ main_pc' = "output"
    /\ UNCHANGED <<cli, slots, finished, exit_code, queried, out, beyond_main>>

\* format_result(r, _): an unwrap of it meets None
format_result_panics(r) ==
    CASE r.status = "UpToDate" -> r.installed = None
      [] r.status = "Outdated" -> r.installed = None \/ r.latest = None
      [] OTHER -> FALSE

\* output_results without its branch for --all
output_results_without_all(json, quiet, all, rs) ==
    LET branch == IF json THEN "json"
                  ELSE IF quiet THEN "quiet"
                  ELSE "format"
    IN  [branch |-> branch,
         panicked |-> branch = "format"
                      /\ \E k \in DOMAIN rs : format_result_panics(rs[k])]

\* output_results: the branch it takes, and whether it panicked in
\* format_result, which only the last branch calls
output_results(json, quiet, all, rs) ==
    LET branch == IF json THEN "json"
                  ELSE IF quiet THEN "quiet"
                  ELSE IF all THEN "all"
                  ELSE "format"
    IN  [branch |-> branch,
         panicked |-> branch = "format"
                      /\ \E k \in DOMAIN rs : format_result_panics(rs[k])]

\* the exit code of main: 101 is the code of a panic of the main thread
PanicCode == 101

\* output_results, under any --json and --quiet, and
\* std::process::exit(code)
Exit ==
    /\ main_pc = "output"
    /\ \E json \in BOOLEAN, quiet \in BOOLEAN :
         out' = Some(output_results(json, quiet, cli.all, results))
    /\ exit_code' =
         Some(IF Unwrap(out').panicked THEN PanicCode
              ELSE IF \E k \in DOMAIN results :
                    results[k].status \in {"NotFound", "NotInstalled"}
              THEN 1
              ELSE IF \E k \in DOMAIN results : results[k].status = "Outdated"
              THEN 2
              ELSE 0)
    /\ main_pc' = "exit"
    /\ UNCHANGED <<cli, slots, finished, results, queried, beyond_main>>

MainNext ==
    \/ Prepare
    \/ \E k \in DOMAIN slots : Closure(k)
    \/ Collect
    \/ Exit

MainSpec == MainInit /\ [][MainNext]_vars

----------------------------------------------------------------------------
(* run_with_timeout, src/src/sources/path.rs; the specification RunSpec.
   Time is in milliseconds and passes while the thread sleeps. *)

COMMAND_TIMEOUT == 5000
POLL_INTERVAL == 10

\* the timeouts run_with_timeout is called with: none at all, the one of
\* its test, and the one of get_version
Timeouts == {0, 10 * POLL_INTERVAL, COMMAND_TIMEOUT}

\* how long thread::sleep(POLL_INTERVAL) may take
Sleeps == {POLL_INTERVAL, 2 * POLL_INTERVAL}

RunInit ==
    /\ timeout \in Timeouts
    /\ child = "none" /\ elapsed = 0 /\ rt_pc = "spawn" /\ rt_ret = None
    /\ StoreIdle /\ LookupInit
    /\ CallIdle /\ VersionIdle /\ ResultIdle /\ MainIdle
    /\ AdapterIdle /\ WriteIdle

beyond_run == <<store_vars, lookup_vars, call_vars, version_vars,
                result_vars, main_vars, adapter_vars, write_vars>>

\* run_with_timeout returns value
Returns(value) == rt_pc' = "returned" /\ rt_ret' = value

\* cmd.spawn().ok()?, and start = Instant::now()
Spawn ==
    /\ rt_pc = "spawn"
    /\ \/ child' = "running" /\ rt_pc' = "try_wait" /\ rt_ret' = rt_ret
       \/ child' = child /\ Returns(None)
    /\ UNCHANGED <<timeout, elapsed, beyond_run>>

\* child.try_wait(): Ok(Some(_)) once the child has exited, Ok(None) while
\* it runs, Err(_) when there is no child to wait for
TryWait ==
    /\ rt_pc = "try_wait"
    /\ CASE child = "exited" -> rt_pc' = "collect" /\ rt_ret' = rt_ret
         [] child = "running" -> rt_pc' = "check" /\ rt_ret' = rt_ret
         [] OTHER -> Returns(None)
    /\ UNCHANGED <<timeout, child, elapsed, beyond_run>>

\* child.wait_with_output().ok()?
WaitWithOutput ==
    /\ rt_pc = "collect"
    /\ IF child = "exited"
       THEN child' = "reaped" /\ Returns(Some("output"))
       ELSE child' = child /\ Returns(None)
    /\ UNCHANGED <<timeout, elapsed, beyond_run>>

\* if start.elapsed() > timeout
CheckTimeout ==
    /\ rt_pc = "check"
    /\ rt_pc' = IF elapsed > timeout THEN "kill" ELSE "sleep"
    /\ UNCHANGED <<timeout, child, elapsed, rt_ret, beyond_run>>

\* child.kill() with its result dropped, returning at once
Kill_without_wait ==
    /\ rt_pc = "kill"
    /\ child' = IF child = "running" THEN "exited" ELSE child
    /\ Returns(None)
    /\ UNCHANGED <<timeout, elapsed, beyond_run>>

\* let _ = child.kill(): a running child ends, not yet waited for
Kill ==
    /\ rt_pc = "kill"
    /\ child' = IF child = "running" THEN "exited" ELSE child
    /\ rt_pc' = "wait"
    /\ UNCHANGED <<timeout, elapsed, rt_ret, beyond_run>>

\* let _ = child.wait(); return None
Wait ==
    /\ rt_pc = "wait"
    /\ child # "running"
    /\ child' = IF child = "exited" THEN "reaped" ELSE child
    /\ Returns(None)
    /\ UNCHANGED <<timeout, elapsed, beyond_run>>

\* std::thread::sleep(POLL_INTERVAL)
Sleep ==
    /\ rt_pc = "sleep"
    /\ \E d \in Sleeps : elapsed' = elapsed + d
    /\ rt_pc' = "try_wait"
    /\ UNCHANGED <<timeout, child, rt_ret, beyond_run>>

\* the child exits by itself
ChildExits ==
    /\ child = "running"
    /\ child' = "exited"
    /\ UNCHANGED <<timeout, elapsed, rt_pc, rt_ret, beyond_run>>

\* the exited child is reaped by another wait of the process
ReapedElsewhere ==
    /\ child = "exited" /\ rt_pc # "returned"
    /\ child' = "gone"
    /\ UNCHANGED <<timeout, elapsed, rt_pc, rt_ret, beyond_run>>

RunNext ==
    \/ Spawn
    \/ TryWait
    \/ WaitWithOutput
    \/ CheckTimeout
    \/ Kill
    \/ Wait
    \/ Sleep
    \/ ChildExits
    \/ ReapedElsewhere

RunSpec == RunInit /\ [][RunNext]_vars

----------------------------------------------------------------------------
(* get_version of the local adapters path and pip, src/src/sources/path.rs
   and pip.rs; the specification AdapterSpec. A child process exits when it
   wants to, or never; the `which` probes are taken to return. *)

\* ["--version", "-version", "version", "-V"]
Flags == 4

AdapterInit ==
    /\ adapter \in {"path", "pip"}
    /\ ad_pc = "probe" /\ flag = 0 /\ ad_ret = None
    /\ timeout = COMMAND_TIMEOUT
    /\ child = "none" /\ elapsed = 0 /\ rt_pc = "returned" /\ rt_ret = None
    /\ StoreIdle /\ LookupInit
    /\ CallIdle /\ VersionIdle /\ ResultIdle /\ MainIdle /\ WriteIdle

beyond_adapter == <<store_vars, lookup_vars, call_vars, version_vars,
                    result_vars, main_vars, write_vars>>

\* get_version returns value
AdReturns(value) == ad_pc' = "returned" /\ ad_ret' = value

\* Command::new("which")...output(): the command (PathSource), or pip or
\* pip3 (find_pip), is found or not
Probe ==
    /\ ad_pc = "probe"
    /\ \/ AdReturns(None) /\ flag' = flag
       \/ adapter = "path" /\ ad_pc' = "flag" /\ flag' = 1 /\ ad_ret' = ad_ret
       \/ adapter = "pip" /\ ad_pc' = "show" /\ flag' = flag /\ ad_ret' = ad_ret
    /\ UNCHANGED <<adapter, run_vars, beyond_adapter>>

\* PathSource::get_version calls run_with_timeout(cmd, COMMAND_TIMEOUT)
PathRun ==
    /\ ad_pc = "flag"
    /\ ad_pc' = "run"
    /\ child' = "none" /\ elapsed' = 0 /\ rt_pc' = "spawn" /\ rt_ret' = None
    /\ UNCHANGED <<adapter, flag, ad_ret, timeout, beyond_adapter>>

\* run_with_timeout has returned: a version in the output is returned, else
\* the next flag is tried, and "installed" is returned after the last
PathAfterRun ==
    /\ ad_pc = "run" /\ rt_pc = "returned"
    /\ \/ IsSome(rt_ret) /\ AdReturns(Some("version")) /\ flag' = flag
       \/ IF flag < Flags
          THEN ad_pc' = "flag" /\ flag' = flag + 1 /\ ad_ret' = ad_ret
          ELSE AdReturns(Some("installed")) /\ flag' = flag
    /\ UNCHANGED <<adapter, run_vars, beyond_adapter>>

\* Command::new(pip).args(..).output() spawns its child: `pip show` in
\* get_installed_version, `pip index versions` in get_pypi_version. When
\* the spawn fails, .ok()? returns None
PipSpawn ==
    /\ ad_pc \in {"show", "index"}
    /\ \/ /\ child' = "running"
          /\ ad_pc' = IF ad_pc = "show" THEN "show_wait" ELSE "index_wait"
          /\ ad_ret' = ad_ret
       \/ /\ child' = child
          /\ IF ad_pc = "show" THEN ad_pc' = "index" /\ ad_ret' = ad_ret
                               ELSE AdReturns(None)
    /\ UNCHANGED <<adapter, flag, timeout, elapsed, rt_pc, rt_ret,
                   beyond_adapter>>

\* output() returns, which it does once its child has exited: with a
\* version, or without one
PipOutput ==
    /\ ad_pc \in {"show_wait", "index_wait"}
    /\ child = "exited"
    /\ child' = "reaped"
    /\ \/ AdReturns(Some("version"))
       \/ IF ad_pc = "show_wait" THEN ad_pc' = "index" /\ ad_ret' = ad_ret
                                 ELSE AdReturns(None)
    /\ UNCHANGED <<adapter, flag, timeout, elapsed, rt_pc, rt_ret,
                   beyond_adapter>>

\* the steps of the thread that runs get_version
AdapterThread ==
    \/ Probe
    \/ PathRun
    \/ PathAfterRun
    \/ PipSpawn
    \/ PipOutput
    \/ Spawn
    \/ TryWait
    \/ WaitWithOutput
    \/ CheckTimeout
    \/ Kill
    \/ Wait
    \/ Sleep

AdapterNext ==
    \/ Probe
    \/ PathRun
    \/ PathAfterRun
    \/ PipSpawn
    \/ PipOutput
    \/ Spawn
    \/ TryWait
    \/ WaitWithOutput
    \/ CheckTimeout
    \/ Kill
    \/ Wait
    \/ Sleep
    \/ ChildExits
    \/ ReapedElsewhere

\* the thread keeps running; nothing makes a child process exit
AdapterSpec ==
    AdapterInit /\ [][AdapterNext]_vars /\ WF_vars(AdapterThread)

----------------------------------------------------------------------------
(* cache::set run by several threads on the characters of the cache files,
   src/src/cache.rs; the specification WriteSpec. fs::write creates the
   file, truncating it, and then writes the content from offset 0. *)

MaxWriters == 2
Writers == 1..MaxWriters

V_1_10 == <<"1", ".", "1", "0">>
\* the versions the writers store
WriteVersions == {V_1_0, V_1_10}

\* the text of serde_json around the fields of a CacheEntry
EntryHead == <<"{", "\"", "v", "e", "r", "s", "i", "o", "n", "\"", ":", "\"">>
EntryMid ==
    <<"\"", ",", "\"", "t", "i", "m", "e", "s", "t", "a", "m", "p", "\"", ":">>

\* a u64 in decimal, and back
RECURSIVE Decimal(_)
Decimal(n) ==
    IF n < 10 THEN <<DigitSeq[n + 1]>>
    ELSE Decimal(n \div 10) \o <<DigitSeq[(n % 10) + 1]>>

RECURSIVE NatOf(_)
NatOf(ds) ==
    IF ds = <<>> THEN 0
    ELSE 10 * NatOf(SubSeq(ds, 1, Len(ds) - 1)) + DigitVal(ds[Len(ds)])

\* serde_json::to_string(&entry), for a version that needs no escape
to_string(entry) ==
    EntryHead \o entry.version \o EntryMid \o Decimal(entry.timestamp)
        \o <<"}">>

\* serde_json::from_str::<CacheEntry>(text).ok(), for the texts that
\* writes of to_string leave: anything after the closing brace is an error
from_str(text) ==
    LET h == Len(EntryHead)
        m == Len(EntryMid)
        quotes == {i \in (h + 1)..Len(text) : text[i] = "\""}
    IN  IF Len(text) > h /\ SubSeq(text, 1, h) = EntryHead /\ quotes # {}
        THEN LET e == CHOOSE i \in quotes : \A j \in quotes : i <= j
                 rest == SubSeq(text, e, Len(text))
                 digits == SubSeq(rest, m + 1, Len(rest) - 1)
             IN  IF /\ Len(rest) > m + 1
                    /\ SubSeq(rest, 1, m) = EntryMid
                    /\ rest[Len(rest)] = "}"
                    /\ \A k \in DOMAIN digits : digits[k] \in Digits
                    /\ (Len(digits) > 1 => digits[1] # "0")
                 THEN Some([version |-> SubSeq(text, h + 1, e - 1),
                            timestamp |-> NatOf(digits)])
                 ELSE None
        ELSE None

\* write_all(content) at offset 0 of a file that holds old
Overlay(content, old) ==
    content \o SubSeq(old, Len(content) + 1, Len(old))

WriteInit ==
    /\ disk = [f \in CacheFiles |-> None]
    /\ wr = [w \in Writers |->
                [pc |-> "idle", source |-> "none", pkg |-> <<>>,
                 content |-> <<>>]]
    /\ read_back = None
    /\ StoreIdle /\ LookupInit
    /\ CallIdle /\ VersionIdle /\ ResultIdle /\ MainIdle /\ RunIdle
    /\ AdapterIdle

beyond_write == <<store_vars, lookup_vars, call_vars, version_vars,
                  result_vars, main_vars, run_vars, adapter_vars>>

\* set(source, package, version) up to serde_json::to_string
SetBegin(w, s, p, v) ==
    /\ wr[w].pc = "idle"
    /\ wr' = [wr EXCEPT ![w] =
                 [pc |-> "create", source |-> s, pkg |-> p,
                  content |-> to_string([version |-> v, timestamp |-> now])]]
    /\ UNCHANGED <<disk, read_back, beyond_write>>

\* fs::write: File::create(path)
SetCreate(w) ==
    /\ wr[w].pc = "create"
    /\ disk' = [disk EXCEPT ![FileName(wr[w].source, wr[w].pkg)] = Some(<<>>)]
    /\ wr' = [wr EXCEPT ![w].pc = "write"]
    /\ UNCHANGED <<read_back, beyond_write>>

\* fs::write: write_all(content)
SetWrite(w) ==
    /\ wr[w].pc = "write"
    /\ LET path == FileName(wr[w].source, wr[w].pkg)
           old == IF IsSome(disk[path]) THEN Unwrap(disk[path]) ELSE <<>>
       IN  disk' = [disk EXCEPT ![path] = Some(Overlay(wr[w].content, old))]
    /\ wr' = [wr EXCEPT ![w].pc = "done"]
    /\ UNCHANGED <<read_back, beyond_write>>

\* get(s, p) after every set has returned
GetLater(s, p) ==
    /\ \A w \in Writers : wr[w].pc = "done"
    /\ read_back = None
    /\ LET path == FileName(s, p)
           entry == IF IsSome(disk[path]) THEN from_str(Unwrap(disk[path]))
                    ELSE None
       IN  IF IsSome(entry) /\ ~fresh(now, Unwrap(entry).timestamp)
           THEN /\ disk' = [disk EXCEPT ![path] = None]
                /\ read_back' = Some([source |-> s, pkg |-> p, value |-> None])
           ELSE /\ disk' = disk
                /\ read_back' =
                     Some([source |-> s, pkg |-> p,
                           value |-> IF IsSome(entry)
                                     THEN Some(Unwrap(entry).version)
                                     ELSE None])
    /\ UNCHANGED <<wr, beyond_write>>

WriteNext ==
    \/ \E w \in Writers, s \in CallSources, p \in Packages,
          v \in WriteVersions : SetBegin(w, s, p, v)
    \/ \E w \in Writers : SetCreate(w)
    \/ \E w \in Writers : SetWrite(w)
    \/ \E s \in CallSources, p \in Packages : GetLater(s, p)

WriteSpec == WriteInit /\ [][WriteNext]_vars

----------------------------------------------------------------------------
(* What the claims speak of *)

Done == pc = "done"
Res == Unwrap(result)

\* the indices whose query returned a version
Succeeded == {i \in DOMAIN qres : IsSome(qres[i])}
\* the non-local ones among them: the registry results
RegistryResults == {i \in Succeeded : ~is_local(sources[i])}
\* the VersionInfo of the version index i returned
InfoOf(i) == VersionInfo_new(Unwrap(qres[i]), sources[i])
\* the position of index i among the indices of S, in source-list order
Rank(S, i) == Cardinality({j \in S : j <= i})

\* lookup_default found an installed version
Installed == Done /\ mode = "Default" /\ IsSome(found)
InstVersion == Unwrap(found).version
InstSource == sources[Unwrap(found).index]
InstInfo == VersionInfo_new(InstVersion, InstSource)
\* the registry results of the installed source's ecosystem
SameEco == {i \in RegistryResults : ecosystem(sources[i]) = ecosystem(InstSource)}
OtherEco == RegistryResults \ SameEco
\* the candidates: the same-ecosystem results newer than the installed one
Candidates == {i \in SameEco : is_newer(InstVersion, Unwrap(qres[i]))}

\* C1: in Default mode with an installed version, the status is Outdated iff
\* a same-ecosystem registry result is newer than the installed version, and
\* otherwise UpToDate with installed and latest both the installed
\* VersionInfo; results of other ecosystems change neither status nor latest.
C1_StatusByEcosystem ==
    Installed =>
        /\ (Res.status = "Outdated") <=> (Candidates # {})
        /\ Res.status \in {"Outdated", "UpToDate"}
        /\ Res.installed = Some(InstInfo)
        /\ Res.status = "UpToDate" => Res.latest = Some(InstInfo)
        /\ Res.status = "Outdated" =>
             \E i \in SameEco : Res.latest = Some(InfoOf(i))

C1_Witness ==
    /\ Installed
    /\ Res.status = "UpToDate"
    /\ SameEco # {}
    /\ \E i \in OtherEco : is_newer(InstVersion, Unwrap(qres[i]))

\* C2: in Default mode with status Outdated, latest is a candidate than
\* which no candidate is newer, and it is the first candidate of the source
\* list when no candidate is newer than another.
C2_LatestIsNewest ==
    (Installed /\ Res.status = "Outdated") =>
        \E i \in Candidates :
            /\ Res.latest = Some(InfoOf(i))
            /\ \A j \in Candidates : ~is_newer(Unwrap(qres[i]), Unwrap(qres[j]))
            /\ (\A j, k \in Candidates : ~is_newer(Unwrap(qres[j]), Unwrap(qres[k])))
                   => \A j \in Candidates : i <= j

C2_Witness ==
    /\ Installed
    /\ Res.status = "Outdated"
    /\ Cardinality(Candidates) >= 2
    /\ \A j, k \in Candidates : ~is_newer(Unwrap(qres[j]), Unwrap(qres[k]))

\* C3: in Default mode with an installed version, alsoFoundIn lists, in the
\* order of the source list, the names of exactly the registry results of
\* another ecosystem than the installed source's.
C3_AlsoFoundIn ==
    Installed =>
        /\ Len(Res.also_found_in) = Cardinality(OtherEco)
        /\ \A i \in OtherEco : Res.also_found_in[Rank(OtherEco, i)] = sources[i]

C3_Witness ==
    /\ Installed
    /\ SameEco # {}
    /\ OtherEco # {}
    /\ Candidates # SameEco

\* C4: in Default mode with no installed version, the status is NotInstalled
\* with available every registry result in source-list order and latest the
\* first of them if there is a registry result, and NotFound with every
\* optional field empty if there is none.
C4_NotInstalledOrNotFound ==
    (Done /\ mode = "Default" /\ found = None) =>
        /\ Succeeded = RegistryResults
        /\ Res.installed = None
        /\ Res.also_found_in = <<>>
        /\ Len(Res.available) = Cardinality(RegistryResults)
        /\ \A i \in RegistryResults :
             Res.available[Rank(RegistryResults, i)] = InfoOf(i)
        /\ IF RegistryResults # {}
           THEN /\ Res.status = "NotInstalled"
                /\ Res.latest = Some(Res.available[1])
           ELSE /\ Res.status = "NotFound"
                /\ Res.latest = None
                /\ Res.install_commands = <<>>

C4_Witness ==
    /\ Done /\ mode = "Default" /\ found = None
    /\ Cardinality(RegistryResults) >= 2
    /\ Res.available[1] # Res.available[2]

\* C5: in All mode available holds one VersionInfo for every source of the
\* list, local or not, whose query returned a version, and the status is
\* NotFound if available is empty and UpToDate otherwise.
C5_AllMode ==
    (Done /\ mode = "All") =>
        /\ Len(Res.available) = Cardinality(Succeeded)
        /\ \A i \in Succeeded : Res.available[Rank(Succeeded, i)] = InfoOf(i)
        /\ Res.status = IF Res.available = <<>> THEN "NotFound" ELSE "UpToDate"
        /\ Res.installed = None /\ Res.latest = None

C5_Witness ==
    /\ Done /\ mode = "All"
    /\ \E i, j \in Succeeded : is_local(sources[i]) /\ ~is_local(sources[j])
    /\ Succeeded # DOMAIN qres

\* C6: in Explicit mode the status is UpToDate iff a source of the list
\* returned a version, installed and latest then both being the VersionInfo
\* of one source that returned a version; otherwise it is NotFound.
C6_ExplicitMode ==
    (Done /\ mode = "Explicit") =>
        /\ (Res.status = "UpToDate") <=> (Succeeded # {})
        /\ Res.status \in {"UpToDate", "NotFound"}
        /\ Res.status = "UpToDate" =>
             \E i \in Succeeded :
                 Res.installed = Some(InfoOf(i)) /\ Res.latest = Some(InfoOf(i))
        /\ Res.status = "NotFound" =>
             /\ \A i \in DOMAIN qres : task[i] = "done"
             /\ Res.installed = None /\ Res.latest = None

C6_Witness ==
    /\ Done /\ mode = "Explicit"
    /\ Cardinality(Succeeded) >= 2
    /\ Res.status = "UpToDate"
    /\ Res.installed # Some(InfoOf(CHOOSE i \in Succeeded : \A j \in Succeeded : i <= j))

\* seq without its element i
RemoveAt(seq, i) == SubSeq(seq, 1, i - 1) \o SubSeq(seq, i + 1, Len(seq))

\* what lookup returns in mode m for these sources and query results
LookupOf(m, srcs, res) ==
    CASE m = "All" -> lookup_all(package, srcs, res)
      [] m = "Explicit" -> lookup_explicit(package, FoundPair)
      [] m = "Default" -> lookup_default(package, srcs, FoundPair, res)

\* the queries that failed
Failed == {i \in DOMAIN qres : task[i] = "done" /\ qres[i] = None}

\* the lookup is running, and a step of it is possible: each disjunct is the
\* guard of a step whose inputs (an answer, an elapsed time) always exist
Running == pc \in {"local", "query", "registry"}
CanStep ==
    \/ \E i \in Indices :
          \/ LocalReady(i)
          \/ QsLocalReady(i)
          \/ QsCacheGetReady(i)
          \/ QsGetVersionReady(i)
          \/ QsCacheSetReady(i)
    \/ LocalOver
    \/ AllOver
    \/ ExplicitOver
    \/ DefaultOver

\* C7: a source whose query fails contributes nothing and does not stop the
\* lookup: after a failure the lookup can still take a step until it has
\* returned, and the result is the one of the lookup without the sources
\* that failed.
C7_FailureIsNoResult ==
    /\ (Running /\ Failed # {}) => CanStep
    /\ Done =>
         \A i \in Failed :
             Res = LookupOf(mode, RemoveAt(sources, i), RemoveAt(qres, i))

C7_Witness ==
    /\ Done
    /\ \E i, j, k \in DOMAIN qres :
         i < j /\ j < k /\ IsSome(qres[i]) /\ qres[j] = None /\ task[j] = "done"
         /\ IsSome(qres[k])
    /\ Res.status \in {"Outdated", "NotInstalled"}

\* the write-through recorded for the source of index i and the package
WrittenFor(i) == written[<<sources[i], package>>]

\* C8: the cache is read or written only for a non-local source queried
\* with use_cache: a query of a local source, the search over the local
\* sources in Default mode and any query with use_cache false leave the
\* cache as it is and return what get_version returned, in one step.
C8_CacheOnlyForRegistry ==
    [][ /\ cache' # cache => (lookups' = lookups /\ use_cache /\ pc # "local")
        /\ lookups' = lookups =>
             \A i \in DOMAIN task :
                 (task'[i] # task[i] /\ (is_local(sources[i]) \/ ~use_cache)) =>
                     /\ cache' = cache
                     /\ task'[i] \in {"start", "done"}
                     /\ task'[i] = "done" =>
                          /\ qfrom'[i] = "adapter"
                          /\ qres'[i] \in Answers(sources[i]) ]_vars

C8_Witness ==
    /\ use_cache /\ cache_dir
    /\ \E i, j \in DOMAIN task :
         /\ is_local(sources[i]) /\ task[i] = "done" /\ IsSome(qres[i])
         /\ ~is_local(sources[j]) /\ IsSome(cache[FileName(sources[j], package)])
    /\ \A i \in DOMAIN task :
         is_local(sources[i]) => cache[FileName(sources[i], package)] = None

EntriesAreReturnedVersions ==
    \A f \in CacheFiles :
        IsSome(cache[f]) =>
            \E s \in SourceNames, p \in Packages :
                /\ f = FileName(s, p)
                /\ ~is_local(s)
                /\ Some(Unwrap(cache[f]).version) \in Answers(s)

\* C10: a query of a non-local source whose get_version returns nothing
\* returns None and leaves the cache as it is; an entry is written only
\* with the version get_version returned to the query that writes it, so
\* every entry holds a version a source returned.
C10_AbsenceNotCached ==
    /\ [][ lookups' = lookups =>
             /\ \A i \in DOMAIN task :
                    (task'[i] # task[i] /\ task'[i] = "done" /\ qres'[i] = None) =>
                        cache' = cache
             /\ \A f \in CacheFiles :
                    (cache'[f] # cache[f] /\ IsSome(cache'[f])) =>
                        \E i \in DOMAIN task :
                            /\ task[i] = "store" /\ task'[i] = "done"
                            /\ f = FileName(sources[i], package)
                            /\ qfrom'[i] = "adapter"
                            /\ qres'[i] = pending[i]
                            /\ qres'[i] = Some(Unwrap(cache'[f]).version) ]_vars
    /\ []EntriesAreReturnedVersions

C10_Witness ==
    /\ use_cache /\ cache_dir
    /\ \E i, j \in DOMAIN task :
         /\ ~is_local(sources[i]) /\ task[i] = "done"
         /\ qres[i] = None /\ qfrom[i] = "adapter"
         /\ cache[FileName(sources[i], package)] = None
         /\ IsSome(cache[FileName(sources[j], package)])

\* the local sources whose get_version returned a version
LocalSucceeded == {i \in Succeeded : is_local(sources[i])}

\* the version and the source of the one local source that returned one
OnlyLocal ==
    IF LocalSucceeded = {} THEN None
    ELSE LET i == CHOOSE j \in LocalSucceeded : TRUE
         IN  Some([version |-> Unwrap(qres[i]), source |-> sources[i]])

\* C26: in Default mode, if at most one local adapter returns a version,
\* the PackageResult is determined by the package, the source list and
\* what each adapter returned, whatever order the concurrent queries
\* completed in: status, installed and latest are those of the one local
\* version against the registry results, and available and alsoFoundIn
\* are in the order of the source list.
C26_OrderIndependent ==
    (Done /\ mode = "Default" /\ Cardinality(LocalSucceeded) <= 1) =>
        /\ Res = lookup_default(package, sources, OnlyLocal, qres)
        /\ \A k \in DOMAIN Res.available :
               Res.available[k] =
                   InfoOf(CHOOSE i \in RegistryResults :
                              Rank(RegistryResults, i) = k)
        /\ IsSome(OnlyLocal) =>
               \A k \in DOMAIN Res.also_found_in :
                   Res.also_found_in[k] =
                       sources[CHOOSE i \in RegistryResults :
                           /\ ecosystem(sources[i]) #
                                  ecosystem(Unwrap(OnlyLocal).source)
                           /\ Cardinality({j \in RegistryResults :
                                  /\ j <= i
                                  /\ ecosystem(sources[j]) #
                                         ecosystem(Unwrap(OnlyLocal).source)})
                                  = k]

\* two local sources were queried and one returned a version; registry
\* sources of both ecosystems returned one
C26_Witness ==
    /\ Done /\ mode = "Default"
    /\ Cardinality(LocalSucceeded) = 1
    /\ \E i \in DOMAIN task :
           is_local(sources[i]) /\ task[i] = "done" /\ qres[i] = None
    /\ Res.status = "Outdated"
    /\ Res.also_found_in # <<>>

\* C25: every Default-mode result with status Outdated has installed
\* taken from a local adapter that returned a version, latest taken from
\* a non-local adapter of the same ecosystem, is_newer(installed.version,
\* latest.version) true and available empty; every Default-mode result
\* with installed populated has installed.local true. is_newer is called
\* on the strings the adapters returned and the fields hold them
\* sanitized: "1.0" against "1.0" and an escape sequence with a digit.
C25_OutdatedFields ==
    (Done /\ mode = "Default") =>
        /\ Res.status = "Outdated" =>
               /\ \E i \in LocalSucceeded, j \in RegistryResults :
                      /\ Res.installed = Some(InfoOf(i))
                      /\ Res.latest = Some(InfoOf(j))
                      /\ ecosystem(sources[j]) = ecosystem(sources[i])
               /\ is_newer(Unwrap(Res.installed).version,
                           Unwrap(Res.latest).version)
               /\ Res.available = <<>>
        /\ IsSome(Res.installed) => Unwrap(Res.installed).local

\* the installed version has no numeric component
Placeholder ==
    Installed /\ \A k \in DOMAIN InstVersion : InstVersion[k] \notin Digits

\* the same-ecosystem registry results whose first numeric component is
\* greater than 0
FirstAboveZero ==
    {i \in SameEco : parse(Unwrap(qres[i])) # <<>>
                       /\ NumLess(<<>>, parse(Unwrap(qres[i]))[1])}

\* C30: when the installed version string has no numeric component,
\* Default mode reports Outdated exactly when some same-ecosystem registry
\* version has a first numeric component greater than 0, and UpToDate
\* otherwise.
C30_PlaceholderInstalled ==
    Placeholder =>
        Res.status = IF FirstAboveZero # {} THEN "Outdated" ELSE "UpToDate"

\* "installed" against registry versions 0.9 and one without a digit
C30_Witness ==
    /\ Placeholder /\ InstVersion = V_installed
    /\ \E i, j \in SameEco :
           Unwrap(qres[i]) = V_0_9 /\ Unwrap(qres[j]) = V_latest
    /\ Res.status = "UpToDate"

\* the query of index i returns from the cache in this step
HitsNow(i) == task'[i] # task[i] /\ task'[i] = "done" /\ qfrom'[i] = "cache"

\* C29 as stated: a cache hit never changes the entry, so a version obtained
\* from an adapter at time t is served from the cache only at times
\* strictly before t + 3600. The entry is stamped by set, which reads the
\* clock after get_version has returned.
C29_ServedWithinTtlOfFetch ==
    [][ lookups' = lookups =>
          \A i \in DOMAIN task :
              HitsNow(i) =>
                  /\ cache' = cache
                  /\ IsSome(WrittenFor(i))
                  /\ qres'[i] = Some(Unwrap(WrittenFor(i)).version)
                  /\ now' < Unwrap(WrittenFor(i)).got + 3600 ]_vars

\* C29, amended: a cache hit never changes the entry: neither get nor a
\* query_source that hits rewrites the timestamp, so a version that set
\* stamped at time t, at or after the time the adapter returned it, is
\* served from the cache only at times strictly before t + 3600, however
\* often it is read in between.
C29_ServedWithinTtlOfWrite ==
    [][ lookups' = lookups =>
          \A i \in DOMAIN task :
              HitsNow(i) =>
                  /\ cache' = cache
                  /\ written' = written
                  /\ IsSome(WrittenFor(i))
                  /\ qres'[i] = Some(Unwrap(WrittenFor(i)).version)
                  /\ Unwrap(cache[FileName(sources[i], package)]).timestamp
                         = Unwrap(WrittenFor(i)).at
                  /\ Unwrap(WrittenFor(i)).got <= Unwrap(WrittenFor(i)).at
                  /\ now' < Unwrap(WrittenFor(i)).at + 3600 ]_vars

\* a hit at the last second of an entry stamped after its version was
\* obtained
C29_Witness ==
    \E i \in DOMAIN task :
        /\ task[i] = "done" /\ qfrom[i] = "cache"
        /\ IsSome(WrittenFor(i))
        /\ Unwrap(WrittenFor(i)).got < Unwrap(WrittenFor(i)).at
        /\ now >= Unwrap(WrittenFor(i)).got + 3600
        /\ qres[i] = Some(Unwrap(WrittenFor(i)).version)

----------------------------------------------------------------------------
(* Claims on the cache called directly, under CacheSpec *)

\* the last call is a get made right after a set of the same source and
\* package, at the same reading of the clock
GetRightAfterSet ==
    /\ Len(calls) = 2
    /\ calls[1].op = "get" /\ calls[2].op = "set"
    /\ calls[1].source = calls[2].source
    /\ calls[1].package = calls[2].package
    /\ calls[1].at = calls[2].at

\* C11 as stated: a get right after set(source, package, v) returns Some(v),
\* for every source name, package name and version string. It fails where
\* dirs::cache_dir() is None: set stores nothing.
C11_RoundTripAlways ==
    GetRightAfterSet => calls[1].ret = Some(calls[2].version)

\* C11, amended: where a cache directory exists, so that set persists its
\* entry, a get right after set(source, package, v) returns Some(v), for
\* every source name, package name and version string; where there is none
\* the get returns None.
C11_RoundTrip ==
    GetRightAfterSet =>
        calls[1].ret = IF cache_dir THEN Some(calls[2].version) ELSE None

C11_Witness ==
    /\ GetRightAfterSet /\ cache_dir
    /\ calls[2].at = DEFAULT_TTL_SECS
    /\ calls[2].package = <<"a", ".", "b">>
    /\ calls[1].ret = Some(V_2_0)

\* the file of a call
FileOf(c) == FileName(c.source, c.package)

\* C12: a get that finds a persisted entry with now - timestamp >= 3600
\* returns None and deletes the entry, so that a second get finds none; with
\* now - timestamp < 3600 it returns the stored version and leaves every
\* entry in place.
C12_Expiry ==
    [][ (calls' # calls /\ calls'[1].op = "get" /\ cache_dir
         /\ IsSome(cache[FileOf(calls'[1])])) =>
          LET f == FileOf(calls'[1])
              entry == Unwrap(cache[f])
          IN  IF calls'[1].at - entry.timestamp >= 3600
              THEN /\ calls'[1].ret = None
                   /\ cache' = [cache EXCEPT ![f] = None]
              ELSE /\ calls'[1].ret = Some(entry.version)
                   /\ cache' = cache ]_vars

C12_Witness ==
    /\ Len(calls) = 2 /\ cache_dir
    /\ calls[1].op = "get" /\ calls[2].op = "set"
    /\ FileOf(calls[1]) = FileOf(calls[2])
    /\ calls[1].at - calls[2].at = 3600
    /\ calls[1].ret = None
    /\ cache[FileOf(calls[1])] = None

\* C27: cache entries are isolated per (source, package): a get returns
\* only a version that a set for the same source and the same package name
\* stored, for any two package names. sanitize maps "a.b" and "a_b" to
\* one file name: the get of one returns what the set of the other stored.
C27_Isolated ==
    (calls # <<>> /\ calls[1].op = "get" /\ IsSome(calls[1].ret)) =>
        stored_by[FileOf(calls[1])] =
            Some(<<calls[1].source, calls[1].package>>)

----------------------------------------------------------------------------
(* Claims on the cache under a clock set back, under SkewSpec *)

\* C28: a get that finds a persisted entry whose timestamp is greater than
\* the current time does not fault, returns None and removes the entry. In
\* a build with overflow checks now - timestamp panics.
C28_NoFaultOnFutureEntry ==
    [][ (calls' # calls /\ calls'[1].op = "get" /\ cache_dir
         /\ IsSome(cache[FileOf(calls'[1])])
         /\ Unwrap(cache[FileOf(calls'[1])]).timestamp > calls'[1].at) =>
          /\ ~calls'[1].panicked
          /\ calls'[1].ret = None
          /\ cache' = [cache EXCEPT ![FileOf(calls'[1])] = None] ]_vars

----------------------------------------------------------------------------
(* Claims on is_newer, under VersionSpec *)

Compared == IsSome(verdict)
Verdict == Unwrap(verdict)

\* component i (from 0) of a parsed version, a missing one counted as 0
Component(a, i) == UnwrapOr0(Get(a, i))

\* the comparison as the claim words it: missing components count as 0 at
\* index i and in the components before i
PaddedNewer(inst, cand) ==
    LET a == parse(inst)
        b == parse(cand)
    IN  \E i \in 0..(Max(Len(a), Len(b)) - 1) :
            /\ \A j \in 0..(i - 1) : Component(a, j) = Component(b, j)
            /\ NumLess(Component(a, i), Component(b, i))

\* C13: is_newer(installed, candidate) is true iff, missing components
\* counted as 0 both at index i and before it, some index i below the
\* longer length has all earlier components equal and the candidate's
\* component greater. The code compares the earlier components as Options:
\* is_newer("1", "1.0.1") is false.
C13_PaddedComparison ==
    Compared => (Verdict.ab <=> PaddedNewer(va, vb))

\* C14: on the strings of version_strategy is_newer is asymmetric and
\* irreflexive.
C14_AsymmetricIrreflexive ==
    (Compared /\ va \in WellFormed /\ vb \in WellFormed) =>
        /\ Verdict.ab => ~Verdict.ba
        /\ ~Verdict.aa

C14_Witness ==
    /\ Compared /\ Verdict.ab /\ ~Verdict.ba
    /\ va = <<"1", ".", "0">>
    /\ vb = <<"1", ".", "0", "-", "r", "c", "1">>

\* C15: on the strings of version_strategy, of any numbers of components,
\* is_newer is transitive.
C15_Transitive ==
    (Compared /\ va \in WellFormed /\ vb \in WellFormed /\ vc \in WellFormed) =>
        ((Verdict.ab /\ Verdict.bc) => Verdict.ac)

C15_Witness ==
    /\ Compared /\ Verdict.ab /\ Verdict.bc /\ Verdict.ac
    /\ Len(parse(va)) = 1 /\ Len(parse(vb)) = 3 /\ Len(parse(vc)) = 2

\* the digit runs of v, as (first, last) positions
Runs(v) ==
    {r \in (1..Len(v)) \X (1..Len(v)) :
        /\ r[1] <= r[2]
        /\ \A k \in r[1]..r[2] : v[k] \in Digits
        /\ r[1] = 1 \/ v[r[1] - 1] \notin Digits
        /\ r[2] = Len(v) \/ v[r[2] + 1] \notin Digits}

\* the digit runs of v whose value fits a u64
FittingRuns(v) ==
    {r \in Runs(v) :
        ~NumLess(U64MaxDigits, StripZeros(SubSeq(v, r[1], r[2])))}

\* C16: is_newer returns a boolean for every pair of strings: a token that
\* does not parse (an empty one, or a digit run above u64::MAX) is
\* discarded, so that the components are the digit runs that fit a u64, and
\* two strings without such a run give false.
C16_NeverFails ==
    Compared =>
        /\ {Verdict.ab, Verdict.ba, Verdict.aa} \subseteq BOOLEAN
        /\ Len(parse(va)) = Cardinality(FittingRuns(va))
        /\ Len(parse(vb)) = Cardinality(FittingRuns(vb))
        /\ (FittingRuns(va) = {} /\ FittingRuns(vb) = {}) =>
               (~Verdict.ab /\ ~Verdict.ba)

C16_Witness ==
    /\ Compared
    /\ va = U64Overflow /\ vb = U64MaxDigits
    /\ parse(va) = <<>> /\ Verdict.ab /\ ~Verdict.ba

----------------------------------------------------------------------------
(* Claims on the PackageResult constructors, under ResultSpec *)

\* two constructed results have the same optional fields populated
SameFields(x, y) ==
    /\ x.installed = y.installed
    /\ x.latest = y.latest
    /\ x.available = y.available

----------------------------------------------------------------------------
(* Claims on main, under MainSpec *)

\* collect has returned
Collected == main_pc = "output" \/ (main_pc = "exit" /\ slots # <<>>)

\* C17: the list of results has one result per input package, in the order
\* of the input packages, whatever order the closures finished in.
C17_InputOrder ==
    Collected =>
        /\ Len(results) = Len(packages_of(cli))
        /\ \A k \in DOMAIN results :
               /\ results[k].package = packages_of(cli)[k].pkg
               /\ results[k] = Unwrap(slots[k])

C17_Witness ==
    /\ Collected
    /\ finished = <<2, 1>>
    /\ results[1].package # results[2].package
    /\ results[1].status = "Outdated" /\ results[2].status = "NotFound"

\* --source names no source of the registry
UnknownSource == IsSome(cli.source) /\ Unwrap(cli.source) \notin SourceNames

Pinned(k) == source_name(cli, k)

\* C23: with --offline no non-local adapter is ever queried: the source
\* list is filtered to the local adapters after the source is selected, so
\* a package whose pinned source (--source or a prefix) is non-local gives
\* NotFound without any query made for it.
C23_OfflineQueriesLocalOnly ==
    cli.offline =>
        /\ \A q \in queried : is_local(q[2])
        /\ \A k \in DOMAIN slots :
               (IsSome(slots[k]) /\ IsSome(Pinned(k))
                /\ ~is_local(Unwrap(Pinned(k)))) =>
                  /\ Unwrap(slots[k]) = not_found(packages_of(cli)[k].pkg)
                  /\ \A q \in queried : q[1] # k

\* offline: one package pinned to npm by its prefix finished as NotFound,
\* another was looked up in the local source of the precedence list
C23_Witness ==
    /\ cli.offline /\ cli.source = None /\ main_pc = "exit"
    /\ \E k \in DOMAIN slots :
           /\ packages_of(cli)[k].source = Some("npm")
           /\ Unwrap(slots[k]).status = "NotFound"
    /\ \E k \in DOMAIN slots : <<k, "path">> \in queried

----------------------------------------------------------------------------
(* Claims on get_version of the local adapters, under AdapterSpec *)

\* C21: every lookup eventually returns even when an external command an
\* adapter runs never exits: every subprocess a local adapter runs, other
\* than the existence probe, is bounded by the hard timeout. A lookup
\* returns only after get_version of each adapter it queries has.
C21_GetVersionReturns == <>(ad_pc = "returned")

----------------------------------------------------------------------------
(* Claims on concurrent writers of the cache, under WriteSpec *)

\* the writers that wrote the key (s, p)
WritersOf(s, p) == {w \in Writers : wr[w].source = s /\ wr[w].pkg = p}

\* C22: concurrent set calls on different keys never affect each other's
\* entries, and concurrent set calls on the same key leave the entry
\* holding exactly the record written by one of them, so that a later get
\* returns one of the written versions and never a mixture of two writes.
C22_LastWriteWins ==
    (\A w \in Writers : wr[w].pc = "done") =>
        /\ \A w \in Writers :
               disk[FileName(wr[w].source, wr[w].pkg)] \in
                   {Some(wr[u].content) :
                       u \in WritersOf(wr[w].source, wr[w].pkg)}
        /\ (IsSome(read_back)
            /\ WritersOf(Unwrap(read_back).source, Unwrap(read_back).pkg) # {})
               => \E u \in WritersOf(Unwrap(read_back).source,
                                     Unwrap(read_back).pkg) :
                      /\ IsSome(from_str(wr[u].content))
                      /\ Unwrap(read_back).value =
                           Some(Unwrap(from_str(wr[u].content)).version)

----------------------------------------------------------------------------
(* Claims on run_with_timeout, under RunSpec *)

\* C20: when run_with_timeout finds the child running with the elapsed
\* time above the timeout, it kills the child, then waits for it, then
\* returns None; and it never returns leaving a child it started running
\* or not waited for.
C20_KillAndReap ==
    /\ [](rt_pc = "returned" => child \notin {"running", "exited"})
    /\ [][ /\ (rt_pc = "check" /\ rt_pc' # rt_pc /\ elapsed > timeout) =>
                  rt_pc' = "kill"
           /\ (rt_pc = "kill" /\ rt_pc' # rt_pc) =>
                  (rt_pc' = "wait" /\ child' # "running")
           /\ (rt_pc = "wait" /\ rt_pc' # rt_pc) =>
                  /\ rt_pc' = "returned" /\ rt_ret' = None
                  /\ child' \in {"reaped", "gone"} ]_vars

C20_Witness ==
    /\ rt_pc = "returned" /\ rt_ret = None
    /\ timeout = COMMAND_TIMEOUT
    /\ elapsed > timeout
    /\ child = "reaped"

====
